---- MODULE Spec2Model ----
(***************************************************************************)
(* The plan execution engine of the Sovereign Agent: the session loop      *)
(* (SovereignAgent.start_session), the step loop                           *)
(* (SovereignAgent._execute_plan) and the session state with its flight    *)
(* recorder (SharedSessionState).                                          *)
(*                                                                         *)
(* Python strings built with f-strings are modelled as tuples of their     *)
(* parts; an Optional value is a sequence of length 0 (None) or 1.         *)
(* Positions in a plan are 1-based here (the code's enumerate index + 1,   *)
(* the number the code itself prints and uses in the step_context keys).   *)
(***************************************************************************)
EXTENDS Integers, Sequences, FiniteSets, TLC

\* ------------------------------------------------------------------ bounds
\* longest plan the Planner returns in the model
MaxSteps == 2

\* number of requests the session reads before only an exit is accepted
MaxRequests == 1

\* ------------------------------------------------------- inputs of the model
\* lines typed at the prompt, as tuples of characters
UserInputs ==
    { <<"l", "s">>, <<" ">>, <<" ", "Q", "U", "I", "T">>, <<"e", "x", "i", "t">> }

\* step goals the Planner may give to a step
StepGoals == { "list files", "count lines" }

\* handler names the Planner may put into a step
PlannedHandlerNames == { "ToolingHandler", "GitHandler" }

\* the overall goal the Planner gives a plan
OverallGoals == { "inspect workspace" }

\* ------------------------------------------------------------ string helpers
UpperLetters == <<"A", "B", "C", "D", "E", "F", "G", "H", "I", "J", "K", "L", "M", "N", "O", "P", "Q", "R", "S", "T", "U", "V", "W", "X", "Y", "Z">>

LowerLetters == <<"a", "b", "c", "d", "e", "f", "g", "h", "i", "j", "k", "l", "m", "n", "o", "p", "q", "r", "s", "t", "u", "v", "w", "x", "y", "z">>

\* str.lower() on one character
LowerChar(c) ==
    IF \E k \in 1..Len(UpperLetters) : UpperLetters[k] = c
    THEN LowerLetters[CHOOSE k \in 1..Len(UpperLetters) : UpperLetters[k] = c]
    ELSE c

\* whitespace, as str.strip() and the regular expression's \s see it
IsSpace(c) == c \in { " ", "\t" }

Lower(s) == [k \in 1..Len(s) |-> LowerChar(s[k])]

RECURSIVE LStrip(_)
LStrip(s) == IF s # <<>> /\ IsSpace(Head(s)) THEN LStrip(Tail(s)) ELSE s

RECURSIVE RStrip(_)
RStrip(s) ==
    IF s # <<>> /\ IsSpace(s[Len(s)]) THEN RStrip(SubSeq(s, 1, Len(s) - 1)) ELSE s

Strip(s) == RStrip(LStrip(s))

IsExitKeyword(user_input) ==
    Strip(Lower(user_input)) \in { <<"e", "x", "i", "t">>, <<"q", "u", "i", "t">> }

\* ------------------------------------------------------------- the registry
\* discover_handlers: the handlers package holds one concrete handler
handlers == { "ToolingHandler" }

\* ----------------------------------------------------------------- models
\* AgentResponse values a handler call may return
HandlerResponses ==
    { [success |-> TRUE, content |-> "exit 0", status_update |-> "completed",
       artifacts_created |-> [exit_code |-> 0]],
      [success |-> FALSE, content |-> "exit 1", status_update |-> "failed",
       artifacts_created |-> [exit_code |-> 1]] }

\* HandlerStepModel as the Planner creates it: a fresh id (uuid4), status and
\* result take their defaults
NewStep(id, handler_name, step_goal) ==
    [id |-> id, handler_name |-> handler_name, step_goal |-> step_goal,
     input_args |-> [command |-> "ls"], status |-> "pending", result |-> <<>>]

\* the step lists orchestrate builds; the k-th step created gets the k-th id
StepLists ==
    UNION { { [k \in 1..n |-> NewStep(<<"step-uuid", k>>, hs[k], gs[k])] :
                hs \in [1..n -> PlannedHandlerNames], gs \in [1..n -> StepGoals] } :
            n \in 1..MaxSteps }

\* TaskPlan: at least one step, a fresh plan_id (uuid4)
TaskPlans ==
    { [plan_id |-> "plan-uuid", overall_goal |-> og, steps |-> ss,
       confidence |-> 1, reasoning |-> ""] :
        og \in OverallGoals, ss \in StepLists }

VARIABLES
    pc,                    \* "prompt" | "loop" | "in_handler" | "ended" | "crashed"
    conversation_history,  \* SharedSessionState.conversation_history
    artifacts,             \* SharedSessionState.artifacts
    current_task_plan,     \* SharedSessionState.current_task_plan (Optional)
    flight,                \* SharedSessionState._flight['records']
    flight_file,           \* content of .sovereign_flight.json
    i,                     \* position of the step the loop is at
    step_context,          \* _execute_plan's step_context
    dispatch_log,          \* handler.execute calls of the running _execute_plan
    planner_log,           \* cognitive_core.orchestrate calls of the session
    plans_executed,        \* _execute_plan calls of the session
    console                \* what the agent printed

\* ToolingHandler and the file system it works on
VARIABLES
    workspace,             \* entries of the live workspace directory
    sandboxes,             \* the sandbox directories made by mkdtemp, in order
    tool_calls,            \* ToolingHandler.execute calls made
    tool_last              \* the last ToolingHandler.execute call

exec_vars ==
    << pc, conversation_history, artifacts, current_task_plan, flight,
       flight_file, i, step_context, dispatch_log, planner_log,
       plans_executed, console >>

tool_vars == << workspace, sandboxes, tool_calls, tool_last >>

\* CognitiveCore
VARIABLES
    plan_last,             \* the last CognitiveCore.orchestrate call
    validate_last,         \* the last IntelligentLLM._validate_plan_structure call
    llm                    \* the LLMClient.call in progress, or the last one made

plan_vars == << plan_last, validate_last, llm >>

vars == << exec_vars, tool_vars, plan_vars >>

\* ------------------------------------------------------ SharedSessionState
\* mutant: the entry is put in front
add_to_history_Prepend(history, role, content) ==
    << [role |-> role, content |-> content] >> \o history

\* add_to_history, lines 36-37
add_to_history(history, role, content) ==
    Append(history, [role |-> role, content |-> content])

Snapshot(history, arts) == [conversation |-> history, artifacts |-> arts]

\* mutant: the snapshot holds the history list itself, so every record shows
\* what was appended since
RecordsAfterAppend_Aliased(records, history) ==
    [k \in 1..Len(records) |-> [records[k] EXCEPT !.conversation = history]]

\* line 45: the snapshot holds list(self.conversation_history), a copy, so
\* an append to the history (line 37) leaves the records as they are
RecordsAfterAppend(records, history) == records

\* mutant: the snapshot is not recorded
RecordsAfterSave_NotRecorded(records, history, arts) == records

\* mutant: the snapshot replaces the records instead of being appended
RecordsAfterSave_Replace(records, history, arts) ==
    << Snapshot(history, arts) >>

\* the in-memory part of save_flight_record
RecordsAfterSave(records, history, arts) ==
    Append(records, Snapshot(history, arts))

\* outcomes of the write in save_flight_record: it succeeds, mkdir/open raises
\* (the file keeps what it held), or json.dump raises after open truncated it
WriteOutcomes == { "written", "not_opened", "dump_failed" }

\* mutant: the snapshot is recorded only once the file was written
SavedRecords_OnlyIfWritten(outcome, records, history, arts) ==
    IF outcome = "written" THEN RecordsAfterSave(records, history, arts)
    ELSE records

\* save_flight_record appends before it tries to write (line 48 precedes the
\* try of lines 49-54), so the records do not depend on the write's outcome
SavedRecords(outcome, records, history, arts) ==
    RecordsAfterSave(records, history, arts)

\* the file part of save_flight_record
FileAfterWrite(outcome, file, records) ==
    CASE outcome = "written" -> [content |-> "written", records |-> records]
      [] outcome = "not_opened" -> file
      [] OTHER -> [content |-> "truncated", records |-> <<>>]

\* the file before the session's first write: absent, or left by an earlier
\* session
FileBeforeSession == [content |-> "not of this session", records |-> <<>>]

\* ------------------------------------------------------------- _execute_plan
plan == current_task_plan[1]

NumSteps == Len(plan.steps)

\* mutant: a successful step is left running
StatusFor_LeftRunning(response) ==
    IF response.success THEN "running" ELSE "failed"

\* mutant: a failed step is reset for a retry in place
StatusFor_ResetOnFailure(response) ==
    IF response.success THEN "completed" ELSE "pending"

\* mutant: the two statuses are swapped
StatusFor_Swapped(response) ==
    IF response.success THEN "failed" ELSE "completed"

\* line 144
StatusFor(response) == IF response.success THEN "completed" ELSE "failed"

\* mutant: the first step of the plan is left out
RECURSIVE PreviousResults_FromSecond(_, _)
PreviousResults_FromSecond(steps, n) ==
    IF n <= 1 THEN <<>>
    ELSE LET rest == PreviousResults_FromSecond(steps, n - 1)
         IN  IF steps[n].result # <<>>
             THEN Append(rest, [step_goal |-> steps[n].step_goal,
                                result |-> steps[n].result[1]])
             ELSE rest

\* __previous_results: earlier steps that have a result
RECURSIVE PreviousResults(_, _)
PreviousResults(steps, n) ==
    IF n = 0 THEN <<>>
    ELSE LET rest == PreviousResults(steps, n - 1)
         IN  IF steps[n].result # <<>>
             THEN Append(rest, [step_goal |-> steps[n].step_goal,
                                result |-> steps[n].result[1]])
             ELSE rest

\* mutant: the two keys are added to the step's own input_args
InputArgsAfterDispatch_InPlace(input_args, enhanced_args) == enhanced_args

\* line 130: enhanced_args is a copy, the step's input_args stay as they are
InputArgsAfterDispatch(input_args, enhanced_args) == input_args

EnhancedArgs(steps, pos, context) ==
    [command |-> steps[pos].input_args.command,
     step_context |-> context,
     previous_results |-> PreviousResults(steps, pos - 1)]

\* mutant: the keys carry the 0-based index of the step
ContextAfter_ZeroBased(context, pos, response) ==
    IF response.success
    THEN context \cup { [key |-> <<"step", pos - 1, "result">>,
                         value |-> <<response.content>>],
                        [key |-> <<"step", pos - 1, "artifacts">>,
                         value |-> <<response.artifacts_created>>] }
    ELSE context

\* lines 141-143: step_context after a response came back for the step at
\* pos, the keys being step_{i+1}_result and step_{i+1}_artifacts
ContextAfter(context, pos, response) ==
    IF response.success
    THEN context \cup { [key |-> <<"step", pos, "result">>,
                         value |-> <<response.content>>],
                        [key |-> <<"step", pos, "artifacts">>,
                         value |-> <<response.artifacts_created>>] }
    ELSE context

SetSteps(steps) == <<[plan EXCEPT !.steps = steps]>>

\* a line the agent prints; position is 0 when the line is about no step
Printed(msg, pos) == [msg |-> msg, position |-> pos]

\* mutant: a failure does not halt the plan
ShouldHalt_Never(response) == FALSE

\* line 157: a response that is not a success halts the plan
ShouldHalt(response) == ~response.success

\* the for loop goes on: next step, or the end of the list and the return to
\* the session loop
Advance(pos) ==
    IF pos < NumSteps
    THEN /\ i' = pos + 1
         /\ pc' = "loop"
    ELSE /\ i' = 0
         /\ pc' = "prompt"

\* break: _execute_plan returns to the session loop
Break ==
    /\ i' = 0
    /\ pc' = "prompt"

\* mutant: a missing handler halts the plan
AfterSkip_Break(pos) == Break

\* line 125: continue
AfterSkip(pos) == Advance(pos)

\* mutant: the loop stops after a success
AfterSuccess_Break(pos) == Break

\* lines 157-161 not taken: the loop goes on after a success
AfterSuccess(pos) == Advance(pos)

\* lines 158-161: break after a failure
AfterFailure(pos) == Break

\* mutant: the loop goes on after a fault
AfterFault_Continue(pos) == Advance(pos)

\* lines 165-167: except Exception ... break
AfterFault(pos) == Break

\* mutant: the loop goes on after an interruption
AfterInterrupt_Continue(pos) == Advance(pos)

\* lines 162-164: except KeyboardInterrupt ... break
AfterInterrupt(pos) == Break

\* mutant: a fault is reported to the history like a failure
HistoryAfterFault_Reported(history, step_goal) ==
    add_to_history(history, "system",
                   <<"Step", step_goal, "completed with status", "failed">>)

\* lines 162-167: the except branches print and break; neither calls
\* add_to_history, the history stays as it was
HistoryAfterFault(history, step_goal) == history

\* lines 120-125: no handler under that name, the step is skipped
SkipStep ==
    /\ pc = "loop"
    /\ plan.steps[i].handler_name \notin handlers
    /\ console' = console \o << Printed("step", i),
                                Printed("handler not found", i) >>
    /\ AfterSkip(i)
    /\ UNCHANGED << tool_vars, plan_vars >>
    /\ UNCHANGED << conversation_history, artifacts, current_task_plan, flight,
                    flight_file, step_context, dispatch_log, planner_log,
                    plans_executed >>

\* lines 120-137: the step is marked running and its handler is called
Dispatch ==
    /\ pc = "loop"
    /\ plan.steps[i].handler_name \in handlers
    /\ current_task_plan' =
          SetSteps([plan.steps EXCEPT
                      ![i].status = "running",
                      ![i].input_args =
                          InputArgsAfterDispatch(
                              plan.steps[i].input_args,
                              EnhancedArgs(plan.steps, i, step_context))])
    /\ dispatch_log' =
          Append(dispatch_log,
                 [position |-> i, step_goal |-> plan.steps[i].step_goal,
                  args |-> EnhancedArgs(plan.steps, i, step_context)])
    /\ console' = Append(console, Printed("step", i))
    /\ pc' = "in_handler"
    /\ UNCHANGED << tool_vars, plan_vars >>
    /\ UNCHANGED << conversation_history, artifacts, flight, flight_file, i,
                    step_context, planner_log, plans_executed >>

\* lines 138-161: the handler returned a response
HandlerReturns ==
    /\ pc = "in_handler"
    /\ \E response \in HandlerResponses, outcome \in WriteOutcomes :
         LET status == StatusFor(response)
             goal == plan.steps[i].step_goal
             h1 == add_to_history(conversation_history, "system",
                       <<"Step", goal, "completed with status", status>>)
             records == SavedRecords(outcome, RecordsAfterAppend(flight, h1),
                                     h1, artifacts)
             h2 == add_to_history(h1, "system",
                       <<"Step failed", goal, "Error", response.content>>)
         IN  /\ current_task_plan' =
                   SetSteps([plan.steps EXCEPT ![i].result = <<response>>,
                                               ![i].status = status])
             /\ step_context' = ContextAfter(step_context, i, response)
             /\ flight_file' = FileAfterWrite(outcome, flight_file, records)
             /\ IF ShouldHalt(response)
                THEN /\ conversation_history' = h2
                     /\ flight' = RecordsAfterAppend(records, h2)
                     /\ console' = console \o << Printed(status, i),
                                                 Printed("step failed, halted", i) >>
                     /\ AfterFailure(i)
                ELSE /\ conversation_history' = h1
                     /\ flight' = records
                     /\ console' = Append(console, Printed(status, i))
                     /\ AfterSuccess(i)
    /\ UNCHANGED << tool_vars, plan_vars >>
    /\ UNCHANGED << artifacts, dispatch_log, planner_log, plans_executed >>

\* lines 165-167: the handler call raised
HandlerRaises ==
    /\ pc = "in_handler"
    /\ console' = Append(console, Printed("unexpected error", i))
    /\ conversation_history' =
          HistoryAfterFault(conversation_history, plan.steps[i].step_goal)
    /\ AfterFault(i)
    /\ UNCHANGED << tool_vars, plan_vars >>
    /\ UNCHANGED << artifacts, current_task_plan, flight,
                    flight_file, step_context, dispatch_log, planner_log,
                    plans_executed >>

\* lines 162-164: KeyboardInterrupt during the handler call
HandlerInterrupted ==
    /\ pc = "in_handler"
    /\ console' = Append(console, Printed("interrupted", i))
    /\ conversation_history' =
          HistoryAfterFault(conversation_history, plan.steps[i].step_goal)
    /\ AfterInterrupt(i)
    /\ UNCHANGED << tool_vars, plan_vars >>
    /\ UNCHANGED << artifacts, current_task_plan, flight,
                    flight_file, step_context, dispatch_log, planner_log,
                    plans_executed >>

\* ------------------------------------------------------------- start_session
\* what orchestrate may return for a request: None for a blank request,
\* otherwise None or a validated TaskPlan
OrchestrateResults(user_input) ==
    IF Strip(user_input) = <<>>
    THEN { <<>> }
    ELSE { <<>> } \cup { <<p>> : p \in TaskPlans }

\* orchestrate reads state.conversation_history[-5:]
RecentConversation(history) ==
    SubSeq(history, IF Len(history) > 5 THEN Len(history) - 4 ELSE 1, Len(history))

\* lines 173-175: an exit keyword ends the loop
ExitRequested ==
    /\ pc = "prompt"
    /\ \E user_input \in UserInputs : IsExitKeyword(user_input)
    /\ pc' = "ended"
    /\ UNCHANGED << tool_vars, plan_vars >>
    /\ UNCHANGED << conversation_history, artifacts, current_task_plan, flight,
                    flight_file, i, step_context, dispatch_log, planner_log,
                    plans_executed, console >>

\* line 180: not task_plan or not task_plan.steps
NoPlan(task_plan) == task_plan = <<>> \/ task_plan[1].steps = <<>>

\* mutant: the session ends when there is no plan
AfterNoPlan_End == "ended"

\* line 182: continue, back to input()
AfterNoPlan == "prompt"

\* lines 176-186: a request is planned and, when there is a plan, executed
Request ==
    /\ pc = "prompt"
    /\ Len(planner_log) < MaxRequests
    /\ \E user_input \in UserInputs :
         /\ ~IsExitKeyword(user_input)
         /\ LET h1 == add_to_history(conversation_history, "user", user_input)
            IN  /\ conversation_history' = h1
                /\ flight' = RecordsAfterAppend(flight, h1)
                /\ planner_log' =
                      Append(planner_log,
                             [user_input |-> user_input,
                              conversation |-> RecentConversation(h1)])
                /\ \E task_plan \in OrchestrateResults(user_input) :
                     /\ current_task_plan' = task_plan
                     /\ IF NoPlan(task_plan)
                        THEN /\ console' = Append(console, Printed("no plan", 0))
                             /\ pc' = AfterNoPlan
                             /\ i' = 0
                             /\ UNCHANGED << plans_executed, step_context,
                                             dispatch_log >>
                        ELSE /\ console' = Append(console, Printed("plan", 0))
                             /\ plans_executed' = plans_executed + 1
                             /\ step_context' = {}
                             /\ dispatch_log' = <<>>
                             /\ i' = 1
                             /\ pc' = "loop"
    /\ UNCHANGED << tool_vars, plan_vars >>
    /\ UNCHANGED << artifacts, flight_file >>

\* line 173: input() raises EOFError when the input stream is at its end;
\* the try of line 172 catches KeyboardInterrupt only, so the exception
\* leaves start_session
InputClosed ==
    /\ pc = "prompt"
    /\ pc' = "crashed"
    /\ UNCHANGED << tool_vars, plan_vars >>
    /\ UNCHANGED << conversation_history, artifacts, current_task_plan, flight,
                    flight_file, i, step_context, dispatch_log, planner_log,
                    plans_executed, console >>

\* lines 187-189: KeyboardInterrupt at the prompt
SessionInterrupted ==
    /\ pc = "prompt"
    /\ pc' = "ended"
    /\ console' = Append(console, Printed("session terminated", 0))
    /\ UNCHANGED << tool_vars, plan_vars >>
    /\ UNCHANGED << conversation_history, artifacts, current_task_plan, flight,
                    flight_file, i, step_context, dispatch_log, planner_log,
                    plans_executed >>


\* ------------------------------------------------------------ ToolingHandler
\* longest run of ToolingHandler.execute calls in the model
MaxToolCalls == 2

\* subprocess.run(..., timeout=30)
TimeoutSeconds == 30

\* commands a step may carry, as tuples of characters
cmd_ls == <<"l", "s">>
cmd_empty == <<>>
cmd_blank == <<" ", " ">>
cmd_rm_rf == <<"r", "m", " ", "-", "r", "f", " ", "/">>
cmd_rm_rf_upper == <<"R", "M", " ", " ", "-", "R", "F", " ", "x">>
cmd_rm_rf_later == <<"l", "s", ";", " ", "r", "m", " ", "-", "r", "f", " ", "y">>
cmd_xrm_rf == <<"x", "r", "m", " ", "-", "r", "f", " ", "/">>
cmd_rm_r_f == <<"r", "m", " ", "-", "r", " ", "-", "f", " ", "/">>
cmd_dd == <<"d", "d", " ", "i", "f", "=", "x">>
cmd_dd_bare == <<"d", "d">>
cmd_mkfs == <<"m", "k", "f", "s", ".", "e", "x", "t", "4">>
cmd_chmod == <<"c", "h", "m", "o", "d", " ", "7", "7", "7", " ", "/">>
cmd_chmod_two_digits == <<"c", "h", "m", "o", "d", " ", "7", "7", " ", "/">>
cmd_shutdown == <<"S", "h", "u", "t", "d", "o", "w", "n">>
cmd_shutdowns == <<"s", "h", "u", "t", "d", "o", "w", "n", "s">>
cmd_reboot == <<"r", "e", "b", "o", "o", "t", " ", "n", "o", "w">>
cmd_touch_relative == <<"t", "o", "u", "c", "h", " ", "n", "e", "w">>
cmd_touch_absolute == <<"t", "o", "u", "c", "h", " ", "/", "w", "s", "/", "n", "e", "w">>

Commands ==
    { cmd_ls, cmd_empty, cmd_blank, cmd_rm_rf, cmd_rm_rf_upper, cmd_rm_rf_later,
      cmd_xrm_rf, cmd_rm_r_f, cmd_dd, cmd_dd_bare, cmd_mkfs, cmd_chmod,
      cmd_chmod_two_digits, cmd_shutdown, cmd_shutdowns, cmd_reboot,
      cmd_touch_relative, cmd_touch_absolute }

\* the args of a call: 'command' is absent (or None), or a string
ToolArgs == { [command |-> <<>>] } \cup { [command |-> <<c>>] : c \in Commands }

\* what a command writes to its error stream
err_none == <<>>
err_usage == <<"u", "s", "a", "g", "e", ":", " ", "f", "o", "o">>
err_usage_upper == <<"U", "s", "a", "g", "e", ":", " ", "f", "o", "o">>
err_warning == <<"w", "a", "r", "n", "i", "n", "g", ":", " ", "x">>
err_error == <<"x", ":", " ", "e", "r", "r", "o", "r", ":", " ", "y">>
err_errors == <<"2", " ", "e", "r", "r", "o", "r", "s">>
err_invalid == <<"i", "n", "v", "a", "l", "i", "d">>
err_not_found == <<"s", "h", ":", " ", "x", ":", " ", "c", "o", "m", "m", "a", "n", "d", " ", "n", "o", "t", " ", "f", "o", "u", "n", "d">>
err_illegal == <<"i", "l", "l", "e", "g", "a", "l", " ", "o", "p", "t", "i", "o", "n", " ", "-", "-", " ", "z">>

ErrorStreams ==
    { err_none, err_usage, err_usage_upper, err_warning, err_error, err_errors,
      err_invalid, err_not_found, err_illegal }

\* ------------------------------------------------- DANGEROUS_RE (lines 13-16)
IsDigit(c) == c \in { "0", "1", "2", "3", "4", "5", "6", "7", "8", "9" }

\* \w of the regular expression
IsWordChar(c) ==
    \/ IsDigit(c)
    \/ c = "_"
    \/ \E k \in 1..Len(LowerLetters) : LowerChar(c) = LowerLetters[k]

\* the lower-case literal stands at position k of s, under re.IGNORECASE
LiteralAt(s, k, literal) ==
    /\ k >= 1
    /\ k + Len(literal) - 1 <= Len(s)
    /\ \A j \in 1..Len(literal) : LowerChar(s[k + j - 1]) = literal[j]

\* \s+ matches the n characters of s from position k
SpacesAt(s, k, n) ==
    /\ n >= 1
    /\ k + n - 1 <= Len(s)
    /\ \A j \in k..(k + n - 1) : IsSpace(s[j])

\* (^|\s) before position k
AfterStartOrSpace(s, k) == k = 1 \/ IsSpace(s[k - 1])

\* \b before position k, the character before it being a word character
WordEndsBefore(s, k) == k > Len(s) \/ ~IsWordChar(s[k])

\* (^|\s)rm\s+-rf
MatchesRmRf(s) ==
    \E k \in 1..Len(s) :
        /\ AfterStartOrSpace(s, k)
        /\ LiteralAt(s, k, <<"r", "m">>)
        /\ \E n \in 1..Len(s) :
             /\ SpacesAt(s, k + 2, n)
             /\ LiteralAt(s, k + 2 + n, <<"-", "r", "f">>)

\* (^|\s)dd\s+
MatchesDd(s) ==
    \E k \in 1..Len(s) :
        /\ AfterStartOrSpace(s, k)
        /\ LiteralAt(s, k, <<"d", "d">>)
        /\ SpacesAt(s, k + 2, 1)

\* (^|\s)mkfs
MatchesMkfs(s) ==
    \E k \in 1..Len(s) : AfterStartOrSpace(s, k) /\ LiteralAt(s, k, <<"m", "k", "f", "s">>)

\* (^|\s)chmod\s+\d{3}\s+/
MatchesChmod(s) ==
    \E k \in 1..Len(s) :
        /\ AfterStartOrSpace(s, k)
        /\ LiteralAt(s, k, <<"c", "h", "m", "o", "d">>)
        /\ \E n \in 1..Len(s), m \in 1..Len(s) :
             /\ SpacesAt(s, k + 5, n)
             /\ k + 5 + n + 2 <= Len(s)
             /\ \A j \in (k + 5 + n)..(k + 5 + n + 2) : IsDigit(s[j])
             /\ SpacesAt(s, k + 5 + n + 3, m)
             /\ LiteralAt(s, k + 5 + n + 3 + m, <<"/">>)

\* (^|\s)shutdown\b
MatchesShutdown(s) ==
    \E k \in 1..Len(s) :
        /\ AfterStartOrSpace(s, k)
        /\ LiteralAt(s, k, <<"s", "h", "u", "t", "d", "o", "w", "n">>)
        /\ WordEndsBefore(s, k + 8)

\* (^|\s)reboot\b
MatchesReboot(s) ==
    \E k \in 1..Len(s) :
        /\ AfterStartOrSpace(s, k)
        /\ LiteralAt(s, k, <<"r", "e", "b", "o", "o", "t">>)
        /\ WordEndsBefore(s, k + 6)

\* DANGEROUS_RE.search(command)
DangerousSearch(s) ==
    \/ MatchesRmRf(s)
    \/ MatchesDd(s)
    \/ MatchesMkfs(s)
    \/ MatchesChmod(s)
    \/ MatchesShutdown(s)
    \/ MatchesReboot(s)

\* mutant: the deny-list is not consulted
is_safe_NoDenyList(command) == command # <<>> /\ Strip(command) # <<>>

\* ToolingHandler._is_safe
is_safe(command) ==
    IF command = <<>> \/ Strip(command) = <<>> THEN FALSE
    ELSE ~DangerousSearch(command)

\* mutant: a command of whitespace only counts as no command
NoCommand_OrBlank(command_arg) ==
    command_arg = <<>> \/ Strip(command_arg[1]) = <<>>

\* mutant: only a missing command counts, an empty one does not
NoCommand_OnlyMissing(command_arg) == command_arg = <<>>

\* line 31: not command, for args.get('command')
NoCommand(command_arg) == command_arg = <<>> \/ command_arg[1] = <<>>

\* ----------------------------------------------------- success classification
\* sub in s, for two strings
Contains(s, sub) ==
    \E k \in 1..(Len(s) - Len(sub) + 1) :
        \A j \in 1..Len(sub) : s[k + j - 1] = sub[j]

\* lines 65
ErrorIndicators ==
    { <<"e", "r", "r", "o", "r", ":">>, <<"i", "n", "v", "a", "l", "i", "d">>, <<"c", "o", "m", "m", "a", "n", "d", " ", "n", "o", "t", " ", "f", "o", "u", "n", "d">>, <<"u", "s", "a", "g", "e", ":">>, <<"i", "l", "l", "e", "g", "a", "l", " ", "o", "p", "t", "i", "o", "n">>,
      <<"i", "n", "v", "a", "l", "i", "d", " ", "o", "p", "t", "i", "o", "n">> }

\* mutant: the error stream is not lower-cased
has_error_indicators_CaseSensitive(stderr) ==
    stderr # <<>> /\ \E indicator \in ErrorIndicators : Contains(stderr, indicator)

\* lines 63-66
has_error_indicators(stderr) ==
    stderr # <<>>
        /\ \E indicator \in ErrorIndicators : Contains(Lower(stderr), indicator)

\* line 69
is_success(exit_code, stderr) == exit_code = 0 /\ ~has_error_indicators(stderr)

\* ----------------------------------------------------------- AgentResponse
\* artifacts_created left at its default, the empty mapping
NoArtifacts == <<>>

Response(success, text, detail, status_update, artifacts_created) ==
    [success |-> success, content |-> [text |-> text, detail |-> detail],
     status_update |-> status_update, artifacts_created |-> artifacts_created]

\* line 32
ResponseNoCommand ==
    Response(FALSE, "No command specified.", <<>>, "no-command", NoArtifacts)

\* line 35
ResponseDangerous(command) ==
    Response(FALSE, "Command appears dangerous or disallowed", <<command>>,
             "dangerous-command", NoArtifacts)

\* lines 60, 71-76: content is the formatted command result
ResponseRan(command, tmpdir, exit_code, stdout, stderr) ==
    Response(is_success(exit_code, stderr), "command result",
             <<command, exit_code, stdout, stderr>>,
             IF is_success(exit_code, stderr) THEN "completed" ELSE "failed",
             [sandbox_path |-> tmpdir, exit_code |-> exit_code,
              has_stderr |-> Strip(stderr) # <<>>])

\* line 78
ResponseTimeout == Response(FALSE, "Command timed out.", <<>>, "timeout", NoArtifacts)

\* mutant: the fault's description is left out of the content
ResponseError_NoDescription(description) ==
    Response(FALSE, "Exception during execution", <<>>, "error", NoArtifacts)

\* line 80
ResponseError(description) ==
    Response(FALSE, "Exception during execution", <<description>>, "error",
             NoArtifacts)

\* mutant: every exception of the try block is handled as a fault
ResponseExpired_AsFault(description) == ResponseError(description)

\* lines 77-78: subprocess.TimeoutExpired has its own handler, before the one
\* for Exception
ResponseExpired(description) == ResponseTimeout

\* -------------------------------------------------------------- file system
Entry(path, kind) == [path |-> path, kind |-> kind]

\* the workspace when the session starts
InitialWorkspace ==
    { Entry(<<"src">>, "dir"), Entry(<<"src", "main.py">>, "file"),
      Entry(<<"src", ".sovereign_flight.json">>, "file"),
      Entry(<<"empty">>, "dir"),
      Entry(<<"README.md">>, "file"), Entry(<<".sovereign_flight.json">>, "file") }

\* mutant: the audit log is copied like every other file
CopiedEntries_All(entries) == entries

\* lines 42-52: what the copy loop makes in the sandbox out of src.rglob('*')
CopiedEntries(entries) ==
    { e \in entries :
        e.kind = "dir" \/ e.path[Len(e.path)] # ".sovereign_flight.json" }

\* state.workspace_context.path (line 38)
WorkspacePath == <<"ws", 0>>

\* the directories a shell command run in cwd makes a file in: touch resolves
\* a relative name in the working directory and an absolute one from the root
WritesTo(command, cwd) ==
    CASE command = cmd_touch_relative -> { cwd }
      [] command = cmd_touch_absolute -> { WorkspacePath }
      [] OTHER -> {}

\* the entry touch makes
TouchedEntry == Entry(<<"new">>, "file")

\* line 54: cwd=tmpdir
RunCwd(src, tmpdir) == tmpdir

\* mutant: mkdtemp hands out the same name again
SandboxPath_Reused(n) == <<"sovereign_sandbox_", 1>>

\* the name mkdtemp gives the n-th sandbox directory
SandboxPath(n) == <<"sovereign_sandbox_", n>>

\* what the environment does to a call: mkdtemp, the copy and the spawn of
\* the shell succeed or raise, and the command needs a time and ends with a
\* return code and an error stream
Environments ==
    { [mkdtemp |-> "raises", copy |-> "ok", spawn |-> "ok", seconds |-> 1,
       returncode |-> 0, stderr |-> err_none, description |-> "no space left"],
      [mkdtemp |-> "ok", copy |-> "raises", spawn |-> "ok", seconds |-> 1,
       returncode |-> 0, stderr |-> err_none, description |-> "permission denied"],
      [mkdtemp |-> "ok", copy |-> "ok", spawn |-> "raises", seconds |-> 1,
       returncode |-> 0, stderr |-> err_none, description |-> "cannot fork"],
      [mkdtemp |-> "ok", copy |-> "ok", spawn |-> "ok", seconds |-> 31,
       returncode |-> 0, stderr |-> err_none, description |-> "timed out"] }
    \cup
    { [mkdtemp |-> "ok", copy |-> "ok", spawn |-> "ok", seconds |-> TimeoutSeconds,
       returncode |-> 0, stderr |-> err_none, description |-> ""] }
    \cup
    { [mkdtemp |-> "ok", copy |-> "ok", spawn |-> "ok", seconds |-> 1,
       returncode |-> 0, stderr |-> err, description |-> ""] :
        err \in ErrorStreams }
    \cup
    { [mkdtemp |-> "ok", copy |-> "ok", spawn |-> "ok", seconds |-> 1,
       returncode |-> 1, stderr |-> err, description |-> ""] :
        err \in { err_none, err_warning, err_error } }

\* the record of a call: its args, whether it raised, the response it
\* returned, the sandbox it made, the exception raised inside the try block
\* by the copy or by subprocess.run failing to run the command, whether a
\* subprocess was spawned and how the subprocess ended
Call(args, raised, response, sandbox, fault, spawned, run) ==
    [args |-> args, raised |-> raised, response |-> response,
     sandbox |-> sandbox, fault |-> fault, spawned |-> spawned, run |-> run]

NoCall == Call([command |-> <<>>], FALSE, <<>>, <<>>, <<>>, FALSE, <<>>)

\* the exception the copy loop (lines 42-52) or subprocess.run (line 54) raises
Fault(env) ==
    IF env.copy = "raises"
    THEN << [during |-> "copy", description |-> env.description] >>
    ELSE IF env.spawn = "raises"
    THEN << [during |-> "run", description |-> env.description] >>
    ELSE <<>>

\* the subprocess ran out of its time
Expired(env) == env.seconds > TimeoutSeconds

\* lines 38-80: the sandbox is made and filled, and the command run in it
RunInSandbox(args, env) ==
    LET command == args.command[1]
        tmpdir == SandboxPath(Len(sandboxes) + 1)
        copied == IF env.copy = "ok" THEN CopiedEntries(workspace) ELSE {}
        spawned == env.copy = "ok" /\ env.spawn = "ok"
        cwd == RunCwd(WorkspacePath, tmpdir)
        written == IF spawned THEN WritesTo(command, cwd) ELSE {}
        run == [returncode |-> env.returncode, stderr |-> env.stderr,
                seconds |-> env.seconds, expired |-> Expired(env), cwd |-> cwd,
                copied_from |-> workspace, sandbox_entries |-> copied]
        response ==
            IF ~spawned THEN ResponseError(env.description)
            ELSE IF Expired(env) THEN ResponseExpired(env.description)
            ELSE ResponseRan(command, tmpdir, env.returncode, "out", env.stderr)
    IN  IF env.mkdtemp = "raises"
        THEN /\ tool_last' = Call(args, TRUE, <<>>, <<>>, <<>>, FALSE, <<>>)
             /\ UNCHANGED << workspace, sandboxes >>
        ELSE /\ tool_last' = Call(args, FALSE, <<response>>, <<tmpdir>>,
                                  Fault(env), spawned,
                                  IF spawned THEN <<run>> ELSE <<>>)
             /\ sandboxes' =
                  Append(sandboxes,
                         [path |-> tmpdir,
                          entries |-> IF tmpdir \in written
                                      THEN copied \cup { TouchedEntry }
                                      ELSE copied])
             /\ workspace' = IF WorkspacePath \in written
                             THEN workspace \cup { TouchedEntry }
                             ELSE workspace

\* ToolingHandler.execute (lines 29-80) as one call
ToolExecute ==
    /\ tool_calls < MaxToolCalls
    /\ tool_calls' = tool_calls + 1
    /\ \E args \in ToolArgs :
         IF NoCommand(args.command)
         THEN /\ tool_last' = Call(args, FALSE, <<ResponseNoCommand>>, <<>>,
                                   <<>>, FALSE, <<>>)
              /\ UNCHANGED << workspace, sandboxes >>
         ELSE IF ~is_safe(args.command[1])
         THEN /\ tool_last' = Call(args, FALSE,
                                   <<ResponseDangerous(args.command[1])>>, <<>>,
                                   <<>>, FALSE, <<>>)
              /\ UNCHANGED << workspace, sandboxes >>
         ELSE \E env \in Environments : RunInSandbox(args, env)
    /\ UNCHANGED << exec_vars, plan_vars >>

\* ------------------------------------------------------------- CognitiveCore
\* JSON values the planner's answer may hold in a field: a string (a tuple
\* of characters), a number (confidences in hundredths), NaN, null
Str(chars) == [type |-> "str", chars |-> chars, num |-> 0]

Num(n) == [type |-> "num", chars |-> <<>>, num |-> n]

NaN == [type |-> "nan", chars |-> <<>>, num |-> 0]

None == [type |-> "none", chars |-> <<>>, num |-> 0]

\* a step of the planner's answer: a JSON object with the keys it has (a
\* key that is absent is the empty sequence), or a value that is no object
StepData(handler_name, step_goal, input_args, status) ==
    [type |-> "dict", handler_name |-> handler_name, step_goal |-> step_goal,
     input_args |-> input_args, status |-> status]

sd_ok == StepData(<<Str(<<"T", "o", "o", "l">>)>>, <<Str(<<"l", "s">>)>>, <<"dict">>, <<>>)
sd_padded == StepData(<<Str(<<" ", "G", "i", "t", " ">>)>>, <<Str(<<" ", "l", "o", "g">>)>>, <<>>, <<>>)
sd_args_list == StepData(<<Str(<<"T", "o", "o", "l">>)>>, <<Str(<<"w", "c">>)>>, <<"list">>, <<>>)
sd_not_dict == [type |-> "str", handler_name |-> <<>>, step_goal |-> <<>>,
                input_args |-> <<>>, status |-> <<>>]
sd_no_handler == StepData(<<>>, <<Str(<<"l", "s">>)>>, <<"dict">>, <<>>)
sd_no_goal == StepData(<<Str(<<"T", "o", "o", "l">>)>>, <<>>, <<"dict">>, <<>>)
sd_blank_goal == StepData(<<Str(<<"T", "o", "o", "l">>)>>, <<Str(<<" ", " ">>)>>, <<"dict">>, <<>>)
sd_handler_number == StepData(<<Num(5)>>, <<Str(<<"l", "s">>)>>, <<"dict">>, <<>>)
sd_bad_status == StepData(<<Str(<<"T", "o", "o", "l">>)>>, <<Str(<<"l", "s">>)>>, <<"dict">>, <<"done">>)

StepDatas ==
    { sd_ok, sd_padded, sd_args_list, sd_not_dict, sd_no_handler, sd_no_goal,
      sd_blank_goal, sd_handler_number, sd_bad_status }

\* the field steps of the answer: a list of steps, or a value that is no list
StepsList(items) == [type |-> "list", items |-> items]

StepsValues ==
    { [type |-> "none", items |-> <<>>], [type |-> "str", items |-> <<>>] }
    \cup { StepsList(items) :
             items \in UNION { [1..n -> StepDatas] : n \in 0..MaxSteps } }

\* the parsed answer: a JSON object with the keys it has
PlanData(overall_goal, steps, confidence, reasoning) ==
    [overall_goal |-> overall_goal, steps |-> steps, confidence |-> confidence,
     reasoning |-> reasoning]

GoodGoal == <<Str(<<" ", "i", "n", "s", "p", "e", "c", "t", " ">>)>>

GoodSteps == <<StepsList(<<sd_ok>>)>>

GoodConfidence == <<Num(80)>>

GoodReasoning == <<Str(<<"b", "e", "c", "a", "u", "s", "e">>)>>

GoalValues == { <<>>, <<None>>, <<Num(1)>>, <<Str(<<>>)>>, <<Str(<<" ", " ">>)>>, GoodGoal }

ConfidenceValues ==
    { <<>>, <<None>>, <<NaN>>, <<Num(0)>>, <<Num(100)>>, <<Num(101)>>,
      <<Num(-1)>>, GoodConfidence, <<Str(<<"0", ".", "5">>)>>, <<Str(<<" ", "1", " ">>)>>, <<Str(<<"1", ".", "5">>)>>,
      <<Str(<<"h", "i", "g", "h">>)>>, <<Str(<<"N", "a", "N">>)>> }

ReasoningValues == { <<>>, <<None>>, <<Num(1)>>, GoodReasoning }

\* answers that differ from a well-formed one in one field
PlanDatas ==
    { PlanData(GoodGoal, <<steps>>, GoodConfidence, GoodReasoning) :
        steps \in StepsValues }
    \cup { PlanData(goal, GoodSteps, GoodConfidence, GoodReasoning) :
             goal \in GoalValues }
    \cup { PlanData(GoodGoal, GoodSteps, confidence, GoodReasoning) :
             confidence \in ConfidenceValues }
    \cup { PlanData(GoodGoal, GoodSteps, GoodConfidence, reasoning) :
             reasoning \in ReasoningValues }
    \cup { PlanData(GoodGoal, <<>>, GoodConfidence, GoodReasoning) }

\* what LLMClient.call hands to call_with_structured_output: the call
\* failed, or it returned a content that is no JSON, a JSON value that is no
\* object, or an object
LLMAnswers ==
    { [kind |-> kind, data |-> PlanData(<<>>, <<>>, <<>>, <<>>)] :
        kind \in { "call_failed", "not_json", "json_list" } }
    \cup { [kind |-> "json_dict", data |-> data] : data \in PlanDatas }

\* what a call returns or raises: raised with no result, or a result that
\* is a sequence of no value (None) or one
Raised == [raised |-> TRUE, result |-> <<>>]

Returns(result) == [raised |-> FALSE, result |-> result]

\* LLMClient.call_with_structured_output, lines 182-222: {"error": ...,
\* "success": False} for a failed call and for a content that is no JSON; a
\* TypeError from parsed["success"] = True for a list; the object with
\* success = True otherwise
call_with_structured_output(answer) ==
    CASE answer.kind \in { "call_failed", "not_json" } ->
             Returns(<< [success |-> FALSE, data |-> answer.data] >>)
      [] answer.kind = "json_list" -> Raised
      [] OTHER -> Returns(<< [success |-> TRUE, data |-> answer.data] >>)

\* ---- float()
DigitChars == <<"0", "1", "2", "3", "4", "5", "6", "7", "8", "9">>

DigitValue(c) == (CHOOSE k \in 1..10 : DigitChars[k] = c) - 1

\* float() of a string, for the notations of the model: surrounding
\* whitespace is ignored; nan in any case is NaN; d or d.d is a number;
\* anything else raises ValueError
ParseFloat(chars) ==
    LET t == Lower(Strip(chars))
    IN  IF t = <<"n", "a", "n">> THEN << [nan |-> TRUE, hundredths |-> 0] >>
        ELSE IF Len(t) = 1 /\ IsDigit(t[1])
        THEN << [nan |-> FALSE, hundredths |-> 100 * DigitValue(t[1])] >>
        ELSE IF Len(t) = 3 /\ IsDigit(t[1]) /\ t[2] = "." /\ IsDigit(t[3])
        THEN << [nan |-> FALSE,
                 hundredths |-> 100 * DigitValue(t[1]) + 10 * DigitValue(t[3])] >>
        ELSE <<>>

\* float(x) of line 415: the float, or no value when it raises
ToFloat(value) ==
    CASE value.type = "num" -> << [nan |-> FALSE, hundredths |-> value.num] >>
      [] value.type = "nan" -> << [nan |-> TRUE, hundredths |-> 0] >>
      [] value.type = "str" -> ParseFloat(value.chars)
      [] OTHER -> <<>>

\* v < 0.0 or v > 1.0, which is false for NaN
OutOfRange(v) == ~v.nan /\ (v.hundredths < 0 \/ v.hundredths > 100)

\* ---- models.py
\* a str field of a model: a string passes, anything else is a validation
\* error
IsStr(value) == value.type = "str"

\* HandlerStepModel(**step_data), lines 26-63, for the k-th step of the
\* answer: the step, or no value when validation raises
HandlerStepModel(step_data, k) ==
    IF /\ IsStr(step_data.handler_name[1])
       /\ Strip(step_data.handler_name[1].chars) # <<>>
       /\ IsStr(step_data.step_goal[1])
       /\ Strip(step_data.step_goal[1].chars) # <<>>
       /\ step_data.status \in { <<>>, <<"pending">>, <<"running">>,
                                 <<"completed">>, <<"failed">> }
    THEN << [id |-> <<"step-uuid", k>>,
             handler_name |-> Strip(step_data.handler_name[1].chars),
             step_goal |-> Strip(step_data.step_goal[1].chars),
             input_args |-> "dict",
             status |-> IF step_data.status = <<>> THEN "pending"
                        ELSE step_data.status[1],
             result |-> <<>>] >>
    ELSE <<>>

\* TaskPlan(...), lines 65-93: the plan, or no value when validation raises
TaskPlan(overall_goal, steps, confidence, reasoning) ==
    IF /\ IsStr(overall_goal) /\ Strip(overall_goal.chars) # <<>>
       /\ Len(steps) >= 1
       /\ ~OutOfRange(confidence)
       /\ IsStr(reasoning)
    THEN << [plan_id |-> "plan-uuid", overall_goal |-> Strip(overall_goal.chars),
             steps |-> steps, confidence |-> confidence,
             reasoning |-> reasoning.chars] >>
    ELSE <<>>

\* ---- orchestrate
\* lines 378-404: the step made of the k-th element of the answer's steps,
\* or no value when the element is skipped
PlanStep(step_data, k) ==
    IF step_data.type # "dict" THEN <<>>
    ELSE IF step_data.handler_name = <<>> THEN <<>>
    ELSE IF step_data.step_goal = <<>> THEN <<>>
    ELSE HandlerStepModel(step_data, k)

\* mutant: the loop stops at the first element it cannot make a step of
RECURSIVE PlanSteps_StopAtMalformed(_, _)
PlanSteps_StopAtMalformed(items, n) ==
    IF n = 0 THEN <<>>
    ELSE LET earlier == PlanSteps_StopAtMalformed(items, n - 1)
         IN  IF Len(earlier) < n - 1 THEN earlier
             ELSE earlier \o PlanStep(items[n], n)

\* lines 376-408: the steps of the elements that were not skipped, in order
RECURSIVE PlanSteps(_, _)
PlanSteps(items, n) ==
    IF n = 0 THEN <<>>
    ELSE PlanSteps(items, n - 1) \o PlanStep(items[n], n)

\* a default for a key that is absent: dict.get(key, default)
Get(field, default) == IF field = <<>> THEN default ELSE field[1]

\* lines 361-424, after the answer arrived: the plan, None, or an exception
PlanFromData(plan_data) ==
    IF ~plan_data.success THEN Returns(<<>>)
    ELSE IF plan_data.data.steps = <<>> THEN Returns(<<>>)
    ELSE IF plan_data.data.steps[1].type = "none" THEN Returns(<<>>)
    ELSE IF plan_data.data.steps[1].type = "list"
            /\ plan_data.data.steps[1].items = <<>> THEN Returns(<<>>)
    ELSE IF plan_data.data.steps[1].type # "list" THEN Returns(<<>>)
    ELSE LET items == plan_data.data.steps[1].items
             steps == PlanSteps(items, Len(items))
             confidence == ToFloat(Get(plan_data.data.confidence, Num(100)))
         IN  IF steps = <<>> THEN Returns(<<>>)
             ELSE IF confidence = <<>> THEN Returns(<<>>)
             ELSE Returns(TaskPlan(Get(plan_data.data.overall_goal, Str(<<>>)),
                                   steps, confidence[1],
                                   Get(plan_data.data.reasoning, Str(<<>>))))

\* mutant: an exception of the planning leaves orchestrate
CatchAll_Reraise(outcome) == outcome

\* lines 285, 426-428: except Exception returns None
CatchAll(outcome) == IF outcome.raised THEN Returns(<<>>) ELSE outcome

\* CognitiveCore.orchestrate, lines 274-428: llm_client has no method
\* call_with_function, so line 354 raises and line 357 asks
\* call_with_structured_output
orchestrate(user_input, answer) ==
    IF user_input = <<>> \/ Strip(user_input) = <<>> THEN Returns(<<>>)
    ELSE CatchAll(LET plan_data == call_with_structured_output(answer)
                  IN  IF plan_data.raised THEN Raised
                      ELSE PlanFromData(plan_data.result[1]))

\* no answer: the LLM was not asked
NoAnswer == [kind |-> "call_failed", data |-> PlanData(<<>>, <<>>, <<>>, <<>>)]

\* the record of an orchestrate call
PlanCall(user_input, answer) ==
    [called |-> TRUE, user_input |-> user_input, answer |-> answer,
     outcome |-> orchestrate(user_input, answer)]

NoPlanCall ==
    [called |-> FALSE, user_input |-> <<>>, answer |-> NoAnswer,
     outcome |-> Returns(<<>>)]

\* requests handed to orchestrate
PlanRequests == { <<"l", "s">>, <<" ">> }

\* one call of orchestrate: a blank request returns before the LLM is
\* asked (lines 277-279), any other gets an answer of the LLM
Orchestrate ==
    /\ \E user_input \in PlanRequests :
         IF Strip(user_input) = <<>>
         THEN plan_last' = PlanCall(user_input, NoAnswer)
         ELSE \E answer \in LLMAnswers : plan_last' = PlanCall(user_input, answer)
    /\ UNCHANGED << exec_vars, tool_vars, validate_last, llm >>

\* ---- IntelligentLLM._validate_plan_structure
\* what the function is given: a dictionary with the keys it has, or a
\* value that is no dictionary
ValidateInputs ==
    { [type |-> "list", data |-> PlanData(<<>>, <<>>, <<>>, <<>>)],
      [type |-> "dict", data |-> PlanData(<<>>, <<>>, <<>>, <<>>)] }
    \cup { [type |-> "dict", data |-> data] : data \in PlanDatas }

\* an error message: the rule it states, and the step index and the field
\* name it is formatted with (-1 and "" when it has none)
Message(rule, index, field) == [rule |-> rule, index |-> index, field |-> field]

\* mutant: steps is looked for before overall_goal
required_fields_StepsFirst == << "steps", "overall_goal" >>

\* line 23
required_fields == << "overall_goal", "steps" >>

\* line 39
step_required_fields == << "handler_name", "step_goal" >>

\* lines 24-26 and 40-42: the first of the fields that the dictionary lacks
RECURSIVE FirstMissing(_, _, _)
FirstMissing(dict, fields, n) ==
    IF n > Len(fields) THEN <<>>
    ELSE IF dict[fields[n]] = <<>> THEN << fields[n] >>
    ELSE FirstMissing(dict, fields, n + 1)

\* lines 36-45 for the step at 0-based index idx: its error, or none
StepError(step, idx) ==
    IF step.type # "dict"
    THEN << Message("Step must be a dictionary", idx, "") >>
    ELSE IF FirstMissing(step, step_required_fields, 1) # <<>>
    THEN << Message("Step missing required field", idx,
                    FirstMissing(step, step_required_fields, 1)[1]) >>
    ELSE IF step.input_args \notin { <<>>, <<"dict">> }
    THEN << Message("Step input_args must be a dictionary", idx, "") >>
    ELSE <<>>

\* lines 35-45: the error of the first step that has one
RECURSIVE FirstStepError(_, _)
FirstStepError(items, n) ==
    IF n > Len(items) THEN <<>>
    ELSE IF StepError(items[n], n - 1) # <<>> THEN StepError(items[n], n - 1)
    ELSE FirstStepError(items, n + 1)

\* _validate_plan_structure, lines 18-47: (is_valid, error)
validate_plan_structure(plan_data) ==
    LET Invalid(message) == [is_valid |-> FALSE, error |-> << message >>]
    IN  IF plan_data.type # "dict"
        THEN Invalid(Message("Plan must be a dictionary", -1, ""))
        ELSE IF FirstMissing(plan_data.data, required_fields, 1) # <<>>
        THEN Invalid(Message("Missing required field", -1,
                             FirstMissing(plan_data.data, required_fields, 1)[1]))
        ELSE IF plan_data.data.steps[1].type # "list"
        THEN Invalid(Message("Steps must be a list", -1, ""))
        ELSE IF plan_data.data.steps[1].items = <<>>
        THEN Invalid(Message("At least one step is required", -1, ""))
        ELSE IF FirstStepError(plan_data.data.steps[1].items, 1) # <<>>
        THEN Invalid(FirstStepError(plan_data.data.steps[1].items, 1)[1])
        ELSE [is_valid |-> TRUE, error |-> <<>>]

\* the record of a _validate_plan_structure call
NoValidateCall ==
    [called |-> FALSE,
     plan_data |-> [type |-> "list", data |-> PlanData(<<>>, <<>>, <<>>, <<>>)],
     result |-> [is_valid |-> FALSE, error |-> <<>>]]

\* one call of _validate_plan_structure
Validate ==
    /\ \E plan_data \in ValidateInputs :
         validate_last' = [called |-> TRUE, plan_data |-> plan_data,
                           result |-> validate_plan_structure(plan_data)]
    /\ UNCHANGED << exec_vars, tool_vars, plan_last, llm >>

\* ---- LLMClient.call
\* the largest max_retries a client is made with (__init__'s default)
MaxRetries == 3

\* a prompt: the empty string, or a text
Prompts == { <<>>, <<"p">> }

\* what the provider's API does on one call: it returns a complete text, an
\* empty one or one that was cut off, or the call raises
ApiReplies ==
    { [kind |-> "complete", description |-> ""],
      [kind |-> "empty", description |-> ""],
      [kind |-> "cut_off", description |-> ""],
      [kind |-> "raises", description |-> "rate limit"],
      [kind |-> "raises", description |-> "connection reset"] }

\* an error string: a plain text, or line 179's text with the number of
\* attempts and the last error (None or a string) in it
ErrorText(text) == [text |-> text, attempts |-> <<>>, last_error |-> <<>>]

FailedAfter(attempts, last_error) ==
    [text |-> "Failed after attempts. Last error", attempts |-> <<attempts>>,
     last_error |-> last_error]

LLMResponse(content, success, truncated, error) ==
    [content |-> content, success |-> success, truncated |-> truncated,
     error |-> error]

\* lines 89-141: the response _make_api_call makes of what the API did
make_api_call(reply) ==
    CASE reply.kind = "complete" -> LLMResponse("text", TRUE, FALSE, <<>>)
      [] reply.kind = "empty" ->
             LLMResponse("", FALSE, TRUE, << ErrorText("Empty response") >>)
      [] reply.kind = "cut_off" ->
             LLMResponse("text...", FALSE, TRUE,
                         << ErrorText("Response appears truncated") >>)
      [] OTHER -> LLMResponse("", FALSE, FALSE, << ErrorText(reply.description) >>)

\* lines 146-150
ResponsePromptsRequired ==
    LLMResponse("", FALSE, FALSE,
                << ErrorText("System prompt and user prompt are required") >>)

\* lines 176-180
ResponseFailedAfter(max_retries, last_error) ==
    LLMResponse("", FALSE, FALSE, << FailedAfter(max_retries, last_error) >>)

\* mutant: one attempt more than max_retries
MoreAttempts_OneMore(attempt, max_retries) == attempt <= max_retries

\* line 154: for attempt in range(self.max_retries)
MoreAttempts(attempt, max_retries) == attempt < max_retries

\* line 162
RetryTruncated(response, attempt, max_retries) ==
    response.truncated /\ attempt < max_retries - 1

\* lines 164 and 174: the multiple of retry_delay slept after the attempt
SleepAfter(attempt, max_retries) ==
    IF attempt < max_retries - 1 THEN attempt + 1 ELSE 0

\* a call at its start: no attempt made, last_error = None (line 152)
LLMState(state, system_prompt, user_prompt, max_retries, response) ==
    [pc |-> state, system_prompt |-> system_prompt, user_prompt |-> user_prompt,
     max_retries |-> max_retries, attempt |-> 0, last_error |-> <<>>,
     api_calls |-> 0, slept |-> 0, responses |-> <<>>, response |-> response]

NoLLMCall == LLMState("idle", <<>>, <<>>, 0, <<>>)

\* lines 143-152: call is entered; without a prompt it returns at once,
\* otherwise it comes to its loop with last_error = None
LLMCall ==
    /\ llm.pc \in { "idle", "returned" }
    /\ \E system_prompt \in Prompts, user_prompt \in Prompts,
          max_retries \in 0..MaxRetries :
         llm' = IF system_prompt = <<>> \/ user_prompt = <<>>
                THEN LLMState("returned", system_prompt, user_prompt,
                              max_retries, << ResponsePromptsRequired >>)
                ELSE LLMState("loop", system_prompt, user_prompt, max_retries,
                              <<>>)
    /\ UNCHANGED << exec_vars, tool_vars, plan_last, validate_last >>

\* lines 154-174: one pass of the loop. _make_api_call catches every
\* Exception itself (lines 135-141), so the except of lines 169-171 is not
\* come to from it
LLMAttempt ==
    /\ llm.pc = "loop"
    /\ MoreAttempts(llm.attempt, llm.max_retries)
    /\ \E reply \in ApiReplies :
         LET response == make_api_call(reply)
             called == [llm EXCEPT !.api_calls = @ + 1,
                                   !.responses = Append(@, response)]
         IN  llm' =
               IF response.success
               THEN [called EXCEPT !.pc = "returned",
                                   !.response = << response >>]
               ELSE IF RetryTruncated(response, llm.attempt, llm.max_retries)
               THEN [called EXCEPT !.attempt = @ + 1,
                                   !.slept = @ + llm.attempt + 1]
               ELSE [called EXCEPT
                       !.attempt = @ + 1,
                       !.last_error = response.error,
                       !.slept = @ + SleepAfter(llm.attempt, llm.max_retries)]
    /\ UNCHANGED << exec_vars, tool_vars, plan_last, validate_last >>

\* lines 176-180: the loop is through without a success
LLMGiveUp ==
    /\ llm.pc = "loop"
    /\ ~MoreAttempts(llm.attempt, llm.max_retries)
    /\ llm' = [llm EXCEPT
                 !.pc = "returned",
                 !.response =
                     << ResponseFailedAfter(llm.max_retries, llm.last_error) >>]
    /\ UNCHANGED << exec_vars, tool_vars, plan_last, validate_last >>

\* ---------------------------------------------------------------------- spec
\* SovereignAgent.__init__: the session state is created and writes its
\* first flight record
Init ==
    /\ pc = "prompt"
    /\ conversation_history = <<>>
    /\ artifacts = <<>>
    /\ current_task_plan = <<>>
    /\ \E outcome \in WriteOutcomes :
         /\ flight = SavedRecords(outcome, <<>>, <<>>, <<>>)
         /\ flight_file = FileAfterWrite(outcome, FileBeforeSession, flight)
    /\ i = 0
    /\ step_context = {}
    /\ dispatch_log = <<>>
    /\ planner_log = <<>>
    /\ plans_executed = 0
    /\ console = <<>>
    /\ workspace = InitialWorkspace
    /\ sandboxes = <<>>
    /\ tool_calls = 0
    /\ tool_last = NoCall
    /\ plan_last = NoPlanCall
    /\ validate_last = NoValidateCall
    /\ llm = NoLLMCall

Next ==
    \/ Request
    \/ ExitRequested
    \/ SessionInterrupted
    \/ InputClosed
    \/ SkipStep
    \/ Dispatch
    \/ HandlerReturns
    \/ HandlerRaises
    \/ HandlerInterrupted

Spec == Init /\ [][Next]_vars

\* the handler on its own: a run of ToolingHandler.execute calls, in a
\* session whose first flight record reached its file
InitTool == Init /\ flight_file = FileAfterWrite("written", FileBeforeSession, flight)

NextTool == ToolExecute

SpecTool == InitTool /\ [][NextTool]_vars

\* the Planner on its own: a run of CognitiveCore.orchestrate calls
NextPlan == Orchestrate

SpecPlan == InitTool /\ [][NextPlan]_vars

\* the plan validation on its own: a run of _validate_plan_structure calls
NextValidate == Validate

SpecValidate == InitTool /\ [][NextValidate]_vars

\* LLMClient.call on its own; a call that is in its loop goes on: the API
\* call and the sleep of a pass come back, and the pass ends
NextLLM == LLMCall \/ LLMAttempt \/ LLMGiveUp

SpecLLM ==
    /\ InitTool
    /\ [][NextLLM]_vars
    /\ WF_vars(LLMAttempt)
    /\ WF_vars(LLMGiveUp)

\* ------------------------------------------------------------------ helpers
HasPlan == current_task_plan # <<>>

Positions == IF HasPlan THEN 1..NumSteps ELSE {}

Terminal == { "completed", "failed" }

\* positions whose handler was called by the running _execute_plan
Dispatched == { dispatch_log[k].position : k \in 1..Len(dispatch_log) }

\* the step at pos has a result that is not a success
FailedAt(pos) ==
    /\ plan.steps[pos].result # <<>>
    /\ ~plan.steps[pos].result[1].success

Untouched(pos) ==
    /\ plan.steps[pos].status = "pending"
    /\ plan.steps[pos].result = <<>>

\* the handler calls follow the list: increasing positions, each with the
\* goal of the step at its position
InListOrder ==
    \A k \in 1..Len(dispatch_log) :
        /\ dispatch_log[k].position \in Positions
        /\ dispatch_log[k].step_goal = plan.steps[dispatch_log[k].position].step_goal
        /\ k > 1 => dispatch_log[k - 1].position < dispatch_log[k].position

\* ------------------------------------------------------------------- claims
\* C1 as stated: steps are dispatched in list order and, when a step is
\* dispatched, every earlier step has reached completed or failed.
C1_Original ==
    HasPlan =>
        /\ InListOrder
        /\ \A pos \in Dispatched : \A j \in 1..(pos - 1) :
               plan.steps[j].status \in Terminal

\* C1 amended: steps are dispatched in list order and, when a step is
\* dispatched, every earlier step has reached a terminal status or was
\* skipped for want of a registered handler (it is then still pending and
\* was never dispatched).
C1_DispatchInOrder ==
    HasPlan =>
        /\ InListOrder
        /\ \A pos \in Dispatched : \A j \in 1..(pos - 1) :
               \/ plan.steps[j].status \in Terminal
               \/ /\ plan.steps[j].handler_name \notin handlers
                  /\ Untouched(j)
                  /\ j \notin Dispatched

\* C1 witness: the second step of a plan is in its handler after the first
\* was dispatched and came back
C1_Witness ==
    /\ pc = "in_handler"
    /\ Len(dispatch_log) = 2
    /\ plan.steps[1].status = "completed"

\* C2: once a step has a result that is not a success, no later step of the
\* plan is dispatched; each later step is pending and has no result.
C2_HaltOnFailure ==
    \A pos \in Positions :
        FailedAt(pos) =>
            \A j \in (pos + 1)..NumSteps : Untouched(j) /\ j \notin Dispatched

\* C2 witness: _execute_plan returned after the first of two steps failed,
\* the second step having a registered handler
C2_Witness ==
    /\ pc = "prompt"
    /\ HasPlan
    /\ NumSteps = 2
    /\ FailedAt(1)
    /\ plan.steps[2].handler_name \in handlers

StatusEntry(step_goal, status) ==
    [role |-> "system",
     content |-> <<"Step", step_goal, "completed with status", status>>]

FailureEntry(step_goal, content) ==
    [role |-> "system", content |-> <<"Step failed", step_goal, "Error", content>>]

\* requests of the user that reached the history
UserRequests ==
    Cardinality({ n \in 1..Len(conversation_history) :
                    conversation_history[n].role = "user" })

\* a Planner call whose conversation carries the failure of the step at pos
RecoveryRequested(pos) ==
    \E k \in 1..Len(planner_log) :
        \E n \in 1..Len(planner_log[k].conversation) :
            planner_log[k].conversation[n] =
                FailureEntry(plan.steps[pos].step_goal,
                             plan.steps[pos].result[1].content)

LastPrinted == console[Len(console)]

\* the handler call in flight comes back with a response in this step
ReturnedStep ==
    /\ pc = "in_handler"
    /\ current_task_plan' # <<>>
    /\ current_task_plan'[1].steps[i].result # <<>>

\* the handler call in flight ends in this step, with a response or not
RanStep ==
    /\ pc = "in_handler"
    /\ pc' # "in_handler"

\* C3 as stated: when _execute_plan is back after a step failed, the
\* Planner has been invoked with a recovery request carrying the failed
\* step's goal and the failure's content.
C3_Original ==
    (pc = "prompt" /\ HasPlan) =>
        \A pos \in Positions : FailedAt(pos) => RecoveryRequested(pos)

\* C4 as stated: a failure in the plan of the first request leads to exactly
\* two executed plans, the original one and the recovery plan.
C4_Original ==
    (pc = "prompt" /\ HasPlan /\ UserRequests = 1
        /\ \E pos \in Positions : FailedAt(pos))
    => plans_executed = 2

\* C5: a handler call that raises is caught in _execute_plan: the session is
\* back at its prompt, the plan and the handler calls made are as they were,
\* no Planner call is made, and as long as the fault is the last thing
\* reported no later step is dispatched or touched.
C5_FaultHaltsWithoutRecovery ==
    /\ [](console # <<>> /\ LastPrinted.msg = "unexpected error" =>
            /\ pc \in { "prompt", "ended", "crashed" }
            /\ HasPlan
            /\ \A j \in (LastPrinted.position + 1)..NumSteps :
                   Untouched(j) /\ j \notin Dispatched
            /\ Len(planner_log) = UserRequests)
    /\ [][(pc = "in_handler" /\ console' # console
            /\ console'[Len(console')].msg = "unexpected error") =>
               /\ pc' = "prompt"
               /\ planner_log' = planner_log
               /\ plans_executed' = plans_executed
               /\ dispatch_log' = dispatch_log]_vars

\* C5 witness: the first of two steps raised and _execute_plan is back
C5_Witness ==
    /\ pc = "prompt"
    /\ console # <<>>
    /\ LastPrinted = Printed("unexpected error", 1)
    /\ NumSteps = 2
    /\ plan.steps[2].handler_name \in handlers

\* C6: a step whose handler is not registered is never dispatched and stays
\* pending without a result, and right after it was skipped the loop is at
\* the next step (or, after the last step, _execute_plan has returned).
C6_MissingHandlerSkipped ==
    HasPlan =>
        \A pos \in Positions :
            plan.steps[pos].handler_name \notin handlers =>
                /\ Untouched(pos)
                /\ pos \notin Dispatched
                /\ (console # <<>> /\ LastPrinted = Printed("handler not found", pos)) =>
                       IF pos < NumSteps
                       THEN pc = "loop" /\ i = pos + 1
                       ELSE pc \in { "prompt", "ended", "crashed" }

\* C6 witness: the first step was skipped and the second is in its handler
C6_Witness ==
    /\ pc = "in_handler"
    /\ i = 2
    /\ plan.steps[1].handler_name \notin handlers
    /\ Dispatched = { 2 }

StatusMoves ==
    { <<"pending", "running">>, <<"running", "completed">>, <<"running", "failed">> }

C8_StatusMatchesResult ==
    \A pos \in Positions :
        LET step == plan.steps[pos]
        IN  /\ step.status = "completed" =>
                step.result # <<>> /\ step.result[1].success
            /\ step.status = "failed" =>
                step.result # <<>> /\ ~step.result[1].success
            /\ step.result # <<>> =>
                step.status \in Terminal /\ step.result[1] \in HandlerResponses

\* C8 witness: a plan with a completed first step and a failed second step
C8_Witness ==
    /\ HasPlan
    /\ NumSteps = 2
    /\ plan.steps[1].status = "completed"
    /\ plan.steps[2].status = "failed"

\* C9 as stated: every step the Executor ran, whatever became of it, is
\* followed by one more audit record.
C9_Original ==
    [][RanStep => Len(flight') = Len(flight) + 1]_vars

\* C9 amended: every step whose handler returned a result, success or not,
\* is followed by one more audit record, whose conversation ends with the
\* entry reporting that step's status.
C9_SnapshotPerReturnedStep ==
    [][ReturnedStep =>
          /\ Len(flight') = Len(flight) + 1
          /\ LET rec == flight'[Len(flight')]
                 step == current_task_plan'[1].steps[i]
             IN  /\ rec.conversation # <<>>
                 /\ rec.conversation[Len(rec.conversation)] =
                        StatusEntry(step.step_goal, step.status)]_vars

\* C9 witness: a failed step and a completed step each left a record
C9_Witness ==
    /\ Len(flight) = 3
    /\ HasPlan
    /\ plan.steps[1].status = "completed"
    /\ FailedAt(2)

\* the records only grow, one at a time, and a save after a returned step
\* appends the snapshot {conversation, artifacts} taken after the status entry
FlightAppendOnly ==
    /\ Len(flight') \in { Len(flight), Len(flight) + 1 }
    /\ SubSeq(flight', 1, Len(flight)) = flight
    /\ ReturnedStep =>
          /\ Len(flight') = Len(flight) + 1
          /\ DOMAIN flight'[Len(flight')] = { "conversation", "artifacts" }
          /\ flight'[Len(flight')].conversation =
                 SubSeq(conversation_history', 1, Len(conversation_history) + 1)
          /\ flight'[Len(flight')].artifacts = artifacts

\* C10 as stated: every save appends exactly one snapshot at the end of the
\* records, changes no earlier record, and leaves the file holding the
\* complete list.
C10_Original ==
    [][/\ FlightAppendOnly
       /\ ReturnedStep =>
             flight_file' = [content |-> "written", records |-> flight']]_vars

\* C10 amended: every save appends exactly one snapshot at the end of the
\* records and changes no earlier record; the file then holds the complete
\* list when the write succeeded, and otherwise is as it was or truncated.
C10_AppendOnlyFlight ==
    [][/\ FlightAppendOnly
       /\ ReturnedStep =>
             \/ flight_file' = [content |-> "written", records |-> flight']
             \/ flight_file' = flight_file
             \/ flight_file' = [content |-> "truncated", records |-> <<>>]]_vars

\* C10 witness: two saves after the first one, the file holding all three
\* records
C10_Witness ==
    /\ Len(flight) = 3
    /\ flight[1] = Snapshot(<<>>, <<>>)
    /\ flight_file = [content |-> "written", records |-> flight]

\* the handler call in flight comes back with a response in this step and
\* the write of the audit-log file fails
ReturnedStepWriteFailed ==
    /\ ReturnedStep
    /\ flight_file' # [content |-> "written", records |-> flight']

\* C11: when the write of the audit-log file fails, nothing is raised: the
\* record is appended in memory all the same, the step gets its status, the
\* history gets its entry, no fault is reported and the loop goes on or halts
\* exactly as the response demands.
C11_WriteFailureSwallowed ==
    [][ReturnedStepWriteFailed =>
          LET step == current_task_plan'[1].steps[i]
              printed == console'[Len(console')]
          IN  /\ Len(flight') = Len(flight) + 1
              /\ SubSeq(flight', 1, Len(flight)) = flight
              /\ step.status \in Terminal
              /\ Len(conversation_history') > Len(conversation_history)
              /\ printed.msg # "unexpected error"
              /\ IF step.result[1].success
                 THEN IF i < NumSteps
                      THEN pc' = "loop" /\ i' = i + 1
                      ELSE pc' = "prompt"
                 ELSE pc' = "prompt" /\ printed.msg = "step failed, halted"]_vars

\* C11 witness: the audit-log file could not be written after the first
\* step, which completed, and the second step is in its handler
C11_Witness ==
    /\ pc = "in_handler"
    /\ i = 2
    /\ plan.steps[1].status = "completed"
    /\ Len(flight) = 2
    /\ flight_file.content # "written"

\* C12: a KeyboardInterrupt during a step's handler call aborts the step
\* loop: the session is back at its prompt, the interrupted step has no
\* result and is not completed (it is still running), and as long as the
\* interruption is the last thing reported no later step is dispatched or
\* touched.
C12_InterruptAbortsLoop ==
    /\ [](console # <<>> /\ LastPrinted.msg = "interrupted" =>
            /\ pc \in { "prompt", "ended", "crashed" }
            /\ HasPlan
            /\ plan.steps[LastPrinted.position].status = "running"
            /\ plan.steps[LastPrinted.position].result = <<>>
            /\ \A j \in (LastPrinted.position + 1)..NumSteps :
                   Untouched(j) /\ j \notin Dispatched)
    /\ [][(pc = "in_handler" /\ console' # console
            /\ console'[Len(console')].msg = "interrupted") =>
               /\ pc' = "prompt"
               /\ dispatch_log' = dispatch_log
               /\ current_task_plan' = current_task_plan]_vars

\* C12 witness: the first of two steps was interrupted in its handler and
\* _execute_plan is back, the second step having a registered handler
C12_Witness ==
    /\ pc = "prompt"
    /\ console # <<>>
    /\ LastPrinted = Printed("interrupted", 1)
    /\ NumSteps = 2
    /\ plan.steps[2].handler_name \in handlers
    /\ plan.steps[1].status = "running"

\* {step_goal, result} of the steps before pos that completed successfully,
\* in plan order
RECURSIVE CompletedBefore(_)
CompletedBefore(pos) ==
    IF pos <= 1 THEN <<>>
    ELSE LET earlier == CompletedBefore(pos - 1)
             step == plan.steps[pos - 1]
         IN  IF step.status = "completed" /\ step.result # <<>>
                /\ step.result[1].success
             THEN earlier \o << [step_goal |-> step.step_goal,
                                 result |-> step.result[1]] >>
             ELSE earlier

StepFrame(step) ==
    [id |-> step.id, handler_name |-> step.handler_name,
     step_goal |-> step.step_goal, input_args |-> step.input_args]

\* what _execute_plan must leave alone in a plan
PlanFrame(p) ==
    [plan_id |-> p.plan_id, overall_goal |-> p.overall_goal,
     confidence |-> p.confidence, reasoning |-> p.reasoning,
     steps |-> [k \in 1..Len(p.steps) |-> StepFrame(p.steps[k])]]

\* C14: while a plan is executed, every step of _execute_plan leaves the
\* plan's id, overall_goal, confidence, reasoning and list of steps, and each
\* step's id, handler_name, step_goal and input_args as they were; only
\* status and result change.
C14_PlanFrame ==
    [][(plans_executed' = plans_executed /\ HasPlan /\ current_task_plan' # <<>>) =>
          /\ PlanFrame(current_task_plan'[1]) = PlanFrame(plan)
          /\ \A pos \in Positions :
                 DOMAIN current_task_plan'[1].steps[pos].input_args
                     = DOMAIN plan.steps[pos].input_args]_vars

\* C14 witness: both steps of a plan were dispatched with enhanced
\* arguments and came back, one completed and one failed
C14_Witness ==
    /\ pc = "prompt"
    /\ HasPlan
    /\ NumSteps = 2
    /\ Len(dispatch_log) = 2
    /\ plan.steps[1].result # <<>>
    /\ plan.steps[2].result # <<>>
    /\ DOMAIN plan.steps[2].input_args = { "command" }

\* ------------------------------------------------- ToolingHandler: the claims
\* ToolingHandler.execute was called
Called == tool_calls > 0

\* the last call returned a response
Returned == Called /\ ~tool_last.raised /\ tool_last.response # <<>>

\* the last call returned a response with this status_update
ReturnedStatus(status_update) ==
    Returned /\ tool_last.response[1].status_update = status_update

\* the last call's args carried this command
CalledWith(command) == Called /\ tool_last.args.command = <<command>>

\* C15: a call whose args have no 'command' entry, or whose command is the
\* empty string, does not raise and returns success = false with
\* status_update 'no-command'.
C15_NoCommand ==
    (Called /\ (tool_last.args.command = <<>> \/ CalledWith(cmd_empty))) =>
        /\ ReturnedStatus("no-command")
        /\ ~tool_last.response[1].success

\* C15 witness: a call with the empty string as its command was answered
\* 'no-command'
C15_Witness == CalledWith(cmd_empty) /\ ReturnedStatus("no-command")

\* commands of the model that the deny-list is meant to catch
DeniedCommands ==
    { cmd_rm_rf, cmd_rm_rf_upper, cmd_rm_rf_later, cmd_dd, cmd_mkfs, cmd_chmod,
      cmd_shutdown, cmd_reboot }

\* commands of the model that come close to a pattern and match none
AllowedCommands ==
    { cmd_ls, cmd_xrm_rf, cmd_rm_r_f, cmd_dd_bare, cmd_chmod_two_digits,
      cmd_shutdowns, cmd_touch_relative, cmd_touch_absolute }

\* C16: a command that matches a deny-list pattern is answered with
\* success = false and status_update 'dangerous-command', and no subprocess
\* is spawned and no sandbox made for it; the patterns match rm -rf, dd,
\* mkfs, chmod NNN /, shutdown and reboot in any case, at the start of the
\* command or after whitespace, and not the commands that only come close.
C16_DenyList ==
    /\ \A command \in DeniedCommands : DangerousSearch(command)
    /\ \A command \in AllowedCommands : ~DangerousSearch(command)
    /\ \A command \in DeniedCommands :
           CalledWith(command) =>
               /\ ReturnedStatus("dangerous-command")
               /\ ~tool_last.response[1].success
               /\ ~tool_last.spawned
               /\ tool_last.sandbox = <<>>
               /\ tool_last.run = <<>>

\* C16 witness: an upper-case rm -rf was rejected as dangerous
C16_Witness ==
    /\ CalledWith(cmd_rm_rf_upper)
    /\ ReturnedStatus("dangerous-command")
    /\ ~tool_last.spawned

\* the last call's command ran to completion
RanToCompletion == Called /\ tool_last.run # <<>> /\ ~tool_last.run[1].expired

\* error streams of the model that hold one of the indicators in some case
IndicatorStreams ==
    { err_usage, err_usage_upper, err_error, err_invalid, err_not_found,
      err_illegal }

\* C17: for a command that ran to completion the response is a success
\* exactly when the exit code is 0 and the lower-cased error stream holds none
\* of 'error:', 'invalid', 'command not found', 'usage:', 'illegal option',
\* 'invalid option'; exit code 0 with 'usage: foo' on the error stream is a
\* failure.
C17_SuccessClassification ==
    /\ \A stderr \in ErrorStreams :
           stderr \in IndicatorStreams <=>
               \E indicator \in { <<"e", "r", "r", "o", "r", ":">>, <<"i", "n", "v", "a", "l", "i", "d">>, <<"c", "o", "m", "m", "a", "n", "d", " ", "n", "o", "t", " ", "f", "o", "u", "n", "d">>,
                                  <<"u", "s", "a", "g", "e", ":">>, <<"i", "l", "l", "e", "g", "a", "l", " ", "o", "p", "t", "i", "o", "n">>, <<"i", "n", "v", "a", "l", "i", "d", " ", "o", "p", "t", "i", "o", "n">> } :
                   Contains(Lower(stderr), indicator)
    /\ RanToCompletion =>
           /\ Returned
           /\ tool_last.response[1].success <=>
                  /\ tool_last.run[1].returncode = 0
                  /\ tool_last.run[1].stderr \notin IndicatorStreams
           /\ (tool_last.run[1].returncode = 0 /\ tool_last.run[1].stderr = err_usage)
                  => ~tool_last.response[1].success

\* C17 witness: a command exited 0 with 'usage: foo' on its error stream and
\* was answered as a failure
C17_Witness ==
    /\ RanToCompletion
    /\ tool_last.run[1].returncode = 0
    /\ tool_last.run[1].stderr = err_usage
    /\ ReturnedStatus("failed")

\* the last call's command was stopped by the timeout of subprocess.run
TimedOut == Called /\ tool_last.run # <<>> /\ tool_last.run[1].expired

\* C18: a command that exceeds the timeout is answered with success = false
\* and status_update 'timeout'; no other outcome carries that status, the
\* others being 'completed', 'failed', 'error', 'no-command' and
\* 'dangerous-command'.
C18_Timeout ==
    /\ TimedOut => (ReturnedStatus("timeout") /\ ~tool_last.response[1].success)
    /\ (Returned /\ ~TimedOut) =>
           tool_last.response[1].status_update \in
               { "completed", "failed", "error", "no-command", "dangerous-command" }

\* C18 witness: a command ran past 30 seconds and was answered 'timeout'
C18_Witness ==
    /\ TimedOut
    /\ TimeoutSeconds = 30
    /\ ReturnedStatus("timeout")
    /\ tool_last.spawned

\* C19: an exception other than the timeout, raised while the workspace is
\* copied or the command is run, does not leave execute: the call returns
\* success = false with status_update 'error' and a content that holds the
\* exception's description.
C19_FaultBecomesError ==
    (Called /\ tool_last.fault # <<>>) =>
        /\ ReturnedStatus("error")
        /\ ~tool_last.response[1].success
        /\ tool_last.response[1].content.detail = << tool_last.fault[1].description >>

\* C19 witness: the copy of the workspace raised and the call returned 'error'
C19_Witness ==
    /\ Called
    /\ tool_last.fault # <<>>
    /\ tool_last.fault[1].during = "copy"
    /\ ReturnedStatus("error")

\* C20: execute never creates, changes or deletes anything in the live
\* workspace, and the command runs with the fresh sandbox directory, not the
\* workspace, as its working directory.
C20_Original ==
    /\ workspace = InitialWorkspace
    /\ (Called /\ tool_last.run # <<>>) =>
           /\ tool_last.run[1].cwd # WorkspacePath
           /\ tool_last.sandbox = << tool_last.run[1].cwd >>

\* the last call spawned its command
RanCommand == Called /\ tool_last.spawned /\ tool_last.run # <<>>

\* a file with the name of the audit log
IsFlightFile(e) == e.kind = "file" /\ e.path[Len(e.path)] = ".sovereign_flight.json"

\* C21: when the command is spawned, the sandbox holds every directory and
\* every file of the workspace at the same relative path, except the files
\* named .sovereign_flight.json, and holds nothing else.
C21_SandboxMirrorsWorkspace ==
    RanCommand =>
        /\ \A e \in tool_last.run[1].copied_from :
               e \in tool_last.run[1].sandbox_entries <=> ~IsFlightFile(e)
        /\ tool_last.run[1].sandbox_entries \subseteq tool_last.run[1].copied_from

\* C21 witness: a command was spawned in a sandbox that holds src/main.py and
\* the empty directory of the workspace and not the audit log
C21_Witness ==
    /\ RanCommand
    /\ Entry(<<".sovereign_flight.json">>, "file") \in tool_last.run[1].copied_from
    /\ Entry(<<".sovereign_flight.json">>, "file") \notin tool_last.run[1].sandbox_entries
    /\ Entry(<<"src", "main.py">>, "file") \in tool_last.run[1].sandbox_entries
    /\ Entry(<<"empty">>, "dir") \in tool_last.run[1].sandbox_entries

\* C22: a response produced after the command ran carries in
\* artifacts_created the captured standard output, the captured standard
\* error, the exit code and the sandbox path.
C22_Original ==
    RanToCompletion =>
        /\ Returned
        /\ { "stdout", "stderr", "exit_code", "sandbox_path" }
               \subseteq DOMAIN tool_last.response[1].artifacts_created

\* the paths of the sandbox directories on disk
SandboxPaths(boxes) == { boxes[k].path : k \in 1..Len(boxes) }

\* this step is a call of execute whose command passes both command checks
PassingCall ==
    /\ tool_calls' = tool_calls + 1
    /\ tool_last'.args.command # <<>>
    /\ tool_last'.args.command[1] \in AllowedCommands

\* a call leaves one more sandbox, with a path no earlier sandbox has
OneNewSandbox ==
    /\ Len(sandboxes') = Len(sandboxes) + 1
    /\ sandboxes'[Len(sandboxes')].path \notin SandboxPaths(sandboxes)
    /\ tool_last'.sandbox = << sandboxes'[Len(sandboxes')].path >>

\* every sandbox there was is still there, at its place in the order
SandboxesKept ==
    /\ Len(sandboxes') >= Len(sandboxes)
    /\ \A k \in 1..Len(sandboxes) : sandboxes'[k].path = sandboxes[k].path

\* C23 as stated: every call that passes the command checks makes a new
\* sandbox directory distinct from all earlier ones, and no sandbox directory
\* is ever removed.
C23_Original == [][SandboxesKept /\ (PassingCall => OneNewSandbox)]_vars

\* C23: every call that passes the command checks and does not raise makes
\* a new sandbox directory distinct from all earlier ones, whether the
\* command succeeds, fails, times out or faults; a call in which mkdtemp
\* raises makes none; and no sandbox directory is ever removed.
C23_SandboxPerCall ==
    [][/\ SandboxesKept
       /\ (PassingCall /\ ~tool_last'.raised) => OneNewSandbox
       /\ (PassingCall /\ tool_last'.raised) => sandboxes' = sandboxes]_vars

\* C23 witness: two calls left two distinct sandboxes, the second after a
\* command that timed out
C23_Witness ==
    /\ Len(sandboxes) = 2
    /\ sandboxes[1].path # sandboxes[2].path
    /\ TimedOut
    /\ tool_last.sandbox = << sandboxes[2].path >>

\* ------------------------------------------------- CognitiveCore: the claims
\* the LLM's answer of the last orchestrate call could not be parsed into a
\* JSON object
Unparsable == plan_last.answer.kind # "json_dict"

\* the parsed answer lacks a field a TaskPlan cannot do without
LacksRequiredField ==
    /\ plan_last.answer.kind = "json_dict"
    /\ \/ plan_last.answer.data.steps = <<>>
       \/ plan_last.answer.data.overall_goal = <<>>

\* a field of the parsed answer has a value of the wrong type
HasWrongType ==
    /\ plan_last.answer.kind = "json_dict"
    /\ \/ /\ plan_last.answer.data.steps # <<>>
          /\ plan_last.answer.data.steps[1].type # "list"
       \/ /\ plan_last.answer.data.overall_goal # <<>>
          /\ plan_last.answer.data.overall_goal[1].type # "str"
       \/ /\ plan_last.answer.data.reasoning # <<>>
          /\ plan_last.answer.data.reasoning[1].type # "str"
       \/ /\ plan_last.answer.data.confidence # <<>>
          /\ plan_last.answer.data.confidence[1].type = "none"

ReturnedPlan ==
    plan_last.called /\ ~plan_last.outcome.raised /\ plan_last.outcome.result # <<>>

\* a string that is not empty after trimming
NonBlank(chars) == Strip(chars) # <<>>

\* C25: every plan orchestrate returns has at least one step, an
\* overall_goal that is non-empty after trimming, a confidence in [0,1], and
\* only steps whose handler_name and step_goal are non-empty after trimming.
C25_Original ==
    ReturnedPlan =>
        LET task_plan == plan_last.outcome.result[1]
        IN  /\ Len(task_plan.steps) >= 1
            /\ NonBlank(task_plan.overall_goal)
            /\ ~task_plan.confidence.nan
            /\ task_plan.confidence.hundredths >= 0
            /\ task_plan.confidence.hundredths <= 100
            /\ \A k \in 1..Len(task_plan.steps) :
                   /\ NonBlank(task_plan.steps[k].handler_name)
                   /\ NonBlank(task_plan.steps[k].step_goal)

\* ------------------------------------------------------ the session: claims
\* this step is a request for which the Planner yielded no plan
PlannedNothing ==
    /\ Len(planner_log') = Len(planner_log) + 1
    /\ current_task_plan' = <<>>

\* C26: when the Planner yields no plan for a request, _execute_plan is not
\* called for it, the user is told that no plan could be devised, and the
\* loop is back at reading the next request; the session has not ended.
C26_NoPlanGoesOn ==
    [][PlannedNothing =>
          /\ pc' = "prompt"
          /\ plans_executed' = plans_executed
          /\ dispatch_log' = dispatch_log
          /\ console' = Append(console, Printed("no plan", 0))]_vars

\* C26 witness: a request was planned, there was no plan, nothing was
\* executed and the session is at the prompt
C26_Witness ==
    /\ pc = "prompt"
    /\ Len(planner_log) = 1
    /\ current_task_plan = <<>>
    /\ plans_executed = 0
    /\ console # <<>>
    /\ console[Len(console)].msg = "no plan"

\* positions of the plan whose step has status running
RunningSteps == { pos \in Positions : plan.steps[pos].status = "running" }

\* C27: at every moment at most one plan is being executed, at most one
\* handler call is in flight and at most one step of the plan has status
\* running: while a handler call is in flight, its step is the one running
\* step, and a plan is taken up for execution only from the prompt, when no
\* other is being executed.
C27_OneAtATime ==
    /\ [](/\ Cardinality(RunningSteps) <= 1
          /\ pc \in { "loop", "in_handler" } => HasPlan
          /\ pc = "in_handler" => RunningSteps = { i })
    /\ [][plans_executed' # plans_executed =>
             (pc = "prompt" /\ plans_executed' = plans_executed + 1)]_vars

\* C27 witness: the second step's handler call is in flight, the first step
\* is completed and the second is the only running one
C27_Witness ==
    /\ pc = "in_handler"
    /\ i = 2
    /\ plan.steps[1].status = "completed"
    /\ RunningSteps = { 2 }

\* how often the handler of the step at pos was called in this run
TimesDispatched(pos) ==
    Cardinality({ k \in 1..Len(dispatch_log) : dispatch_log[k].position = pos })

\* every step of the plan names a registered handler, and every handler
\* call made so far returned a success
AllRegisteredAllSuccess ==
    /\ HasPlan
    /\ \A pos \in Positions : plan.steps[pos].handler_name \in handlers
    /\ \A pos \in Dispatched :
           /\ plan.steps[pos].result # <<>>
           /\ plan.steps[pos].result[1].success

\* C28: for a plan whose every step names a registered handler and whose
\* every handler call returns success, no step is dispatched twice, and when
\* _execute_plan is back every step was dispatched exactly once and is
\* completed, and the Planner was called for the user's requests only.
C28_AllSucceed ==
    AllRegisteredAllSuccess =>
        /\ \A pos \in Positions : TimesDispatched(pos) <= 1
        /\ pc = "prompt" =>
               /\ \A pos \in Positions :
                      /\ TimesDispatched(pos) = 1
                      /\ plan.steps[pos].status = "completed"
               /\ Len(planner_log) = UserRequests

\* C28 witness: a plan of two steps ran to its end with both handler calls
\* returning success
C28_Witness ==
    /\ pc = "prompt"
    /\ AllRegisteredAllSuccess
    /\ NumSteps = 2
    /\ Len(dispatch_log) = 2
    /\ plan.steps[2].status = "completed"

\* this step is a call of the Planner
PlannerCalled == Len(planner_log') = Len(planner_log) + 1

\* C29: the conversation history only grows at its end: every step leaves
\* the entries there were in place and unchanged, and a step that calls the
\* Planner for a request has appended that request as the one new entry,
\* which is the last entry of the conversation the Planner is given.
C29_HistoryAppendOnly ==
    [][/\ Len(conversation_history') >= Len(conversation_history)
       /\ SubSeq(conversation_history', 1, Len(conversation_history))
              = conversation_history
       /\ PlannerCalled =>
              LET call == planner_log'[Len(planner_log')]
              IN  /\ Len(conversation_history') = Len(conversation_history) + 1
                  /\ conversation_history'[Len(conversation_history')].role = "user"
                  /\ conversation_history'[Len(conversation_history')].content
                         = call.user_input
                  /\ call.conversation # <<>>
                  /\ call.conversation[Len(call.conversation)]
                         = conversation_history'[Len(conversation_history')]]_vars

\* C29 witness: the history holds a request followed by the two entries of
\* a failed step
C29_Witness ==
    /\ Len(conversation_history) = 3
    /\ Len(planner_log) = 1
    /\ conversation_history[1].role = "user"
    /\ conversation_history[2].role = "system"
    /\ conversation_history[3].role = "system"

\* this step ends the session loop
LoopEnds == pc \in { "prompt", "loop", "in_handler" } /\ pc' \in { "ended", "crashed" }

\* C30: the session loop ends only by the break after an exit keyword or by
\* the break after a process interruption outside a step's execution, and
\* the step that ends it adds nothing to the history, plans nothing and
\* executes nothing.
C30_Original ==
    [][LoopEnds =>
          /\ pc = "prompt"
          /\ pc' = "ended"
          /\ \/ console' = console
             \/ console' = Append(console, Printed("session terminated", 0))
          /\ conversation_history' = conversation_history
          /\ planner_log' = planner_log
          /\ plans_executed' = plans_executed
          /\ dispatch_log' = dispatch_log]_vars

\* ---------------------------------------- _validate_plan_structure: claims
\* the rules of a valid plan in the order they are stated, each with the
\* message that names it; a rule about a step comes after every rule about
\* an earlier step
ViolatedRules(plan_data) ==
    LET data == plan_data.data
        IsDict == plan_data.type = "dict"
        HasSteps == IsDict /\ data.steps # <<>>
        IsList == HasSteps /\ data.steps[1].type = "list"
        items == data.steps[1].items
        Rule(violated, rank, message) ==
            IF violated THEN { <<rank, message>> } ELSE {}
        StepRules(n) ==
            Rule(items[n].type # "dict", 10 * n + 1,
                 Message("Step must be a dictionary", n - 1, ""))
            \cup Rule(items[n].type = "dict" /\ items[n].handler_name = <<>>,
                      10 * n + 2,
                      Message("Step missing required field", n - 1, "handler_name"))
            \cup Rule(items[n].type = "dict" /\ items[n].step_goal = <<>>,
                      10 * n + 3,
                      Message("Step missing required field", n - 1, "step_goal"))
            \cup Rule(items[n].type = "dict"
                          /\ items[n].input_args \notin { <<>>, <<"dict">> },
                      10 * n + 4,
                      Message("Step input_args must be a dictionary", n - 1, ""))
    IN  Rule(~IsDict, 1, Message("Plan must be a dictionary", -1, ""))
        \cup Rule(IsDict /\ data.overall_goal = <<>>, 2,
                  Message("Missing required field", -1, "overall_goal"))
        \cup Rule(IsDict /\ data.steps = <<>>, 3,
                  Message("Missing required field", -1, "steps"))
        \cup Rule(HasSteps /\ ~IsList, 4, Message("Steps must be a list", -1, ""))
        \cup Rule(IsList /\ items = <<>>, 5,
                  Message("At least one step is required", -1, ""))
        \cup (IF IsList THEN UNION { StepRules(n) : n \in 1..Len(items) } ELSE {})

\* the violated rule that comes first
FirstViolated(plan_data) ==
    CHOOSE v \in ViolatedRules(plan_data) :
        \A w \in ViolatedRules(plan_data) : v[1] <= w[1]

\* C31: _validate_plan_structure returns (True, None) exactly for a
\* dictionary that has overall_goal and a non-empty list steps whose every
\* element is a dictionary with handler_name and step_goal and, when
\* present, a dictionary input_args; for every other input it returns False
\* with the message of the first rule that is violated, which for a missing
\* field holds the field's name.
C31_ValidatePlanStructure ==
    validate_last.called =>
        IF ViolatedRules(validate_last.plan_data) = {}
        THEN validate_last.result = [is_valid |-> TRUE, error |-> <<>>]
        ELSE /\ ~validate_last.result.is_valid
             /\ validate_last.result.error
                    = << FirstViolated(validate_last.plan_data)[2] >>

\* C31 witness: a dictionary that lacks both overall_goal and steps was
\* refused with the message about overall_goal
C31_Witness ==
    /\ validate_last.called
    /\ validate_last.plan_data.type = "dict"
    /\ validate_last.plan_data.data.overall_goal = <<>>
    /\ validate_last.plan_data.data.steps = <<>>
    /\ ~validate_last.result.is_valid
    /\ validate_last.result.error[1].field = "overall_goal"

\* the handler call in flight ends in this step by an exception or by an
\* interruption
FaultedStep ==
    /\ pc = "in_handler"
    /\ console'[Len(console')].msg \in { "unexpected error", "interrupted" }

\* C32: when a handler call raises an exception or is interrupted,
\* _execute_plan returns with the step it was executing still running and
\* without a result, and the history has no new entry; whenever
\* _execute_plan is back, a step that is still running has no result.
C32_FaultLeavesStepRunning ==
    /\ [][FaultedStep =>
             /\ pc' = "prompt"
             /\ current_task_plan'[1].steps[i].status = "running"
             /\ current_task_plan'[1].steps[i].result = <<>>
             /\ conversation_history' = conversation_history]_vars
    /\ []((pc \in { "prompt", "ended", "crashed" } /\ HasPlan) =>
             \A pos \in RunningSteps : plan.steps[pos].result = <<>>)

\* _execute_plan is back after the call of the second step was interrupted:
\* the step is running and has no result, the first step's entry is the
\* history's last
C32_Witness ==
    /\ pc = "prompt"
    /\ HasPlan
    /\ NumSteps = 2
    /\ LastPrinted.msg = "interrupted"
    /\ LastPrinted.position = 2
    /\ plan.steps[2].status = "running"
    /\ plan.steps[2].result = <<>>
    /\ plan.steps[1].status = "completed"
    /\ conversation_history[Len(conversation_history)] =
           StatusEntry(plan.steps[1].step_goal, "completed")

\* handler calls of the session that returned a response: each one printed
\* its step's status (line 145)
ReturnedCalls ==
    Cardinality({ n \in 1..Len(console) : console[n].msg \in Terminal })

\* a step ends in this step without a response: skipped, faulted or
\* interrupted
EndsWithoutResponse ==
    /\ pc \in { "loop", "in_handler" }
    /\ console' # console
    /\ console'[Len(console')].msg \in
           { "handler not found", "unexpected error", "interrupted" }

\* C33: at every point of a session the number of audit records is 1 (the
\* record of the state's construction) plus the number of handler calls that
\* returned a result; a skipped, faulted or interrupted step adds no record.
C33_RecordCount ==
    /\ [](Len(flight) = 1 + ReturnedCalls)
    /\ [][EndsWithoutResponse => flight' = flight]_vars

\* the first step returned and left a record, the second raised and left
\* none
C33_Witness ==
    /\ HasPlan
    /\ NumSteps = 2
    /\ plan.steps[1].result # <<>>
    /\ LastPrinted = Printed("unexpected error", 2)
    /\ ReturnedCalls = 1
    /\ Len(flight) = 2

IsPrefix(s, t) == Len(s) <= Len(t) /\ SubSeq(t, 1, Len(s)) = s

\* the history grows in this step
HistoryGrows == Len(conversation_history') > Len(conversation_history)

\* C34: every audit record's conversation snapshot is a prefix of the
\* conversation history from then on, the snapshots of successive records
\* are ordered by the prefix relation, and a step that appends to the
\* history leaves every snapshot taken before as it was.
C34_SnapshotsArePrefixes ==
    /\ [](\A k \in 1..Len(flight) :
             /\ IsPrefix(flight[k].conversation, conversation_history)
             /\ \A l \in k..Len(flight) :
                    IsPrefix(flight[k].conversation, flight[l].conversation))
    /\ [][HistoryGrows =>
             \A k \in 1..Len(flight) : flight'[k] = flight[k]]_vars

\* the history has grown past the last snapshot, which has grown past the
\* first
C34_Witness ==
    /\ Len(flight) >= 2
    /\ flight[1].conversation = <<>>
    /\ flight[Len(flight)].conversation # <<>>
    /\ Len(conversation_history) > Len(flight[Len(flight)].conversation)

\* the handler call in flight comes back with a failure in this step
FailedStep ==
    /\ ReturnedStep
    /\ ~current_task_plan'[1].steps[i].result[1].success

\* C35: for a step whose handler returns a failure the history gets the
\* entry reporting the step's status, then the audit snapshot is taken, then
\* the history gets the entry "Step failed: <goal>. Error: <content>", then
\* the loop stops; the record written for the step ends with the status
\* entry and is without the failure-detail entry.
C35_FailureOrder ==
    [][FailedStep =>
          LET step == current_task_plan'[1].steps[i]
              status_entry == StatusEntry(step.step_goal, "failed")
              failure_entry ==
                  FailureEntry(step.step_goal, step.result[1].content)
          IN  /\ step.status = "failed"
              /\ conversation_history' =
                     conversation_history \o << status_entry, failure_entry >>
              /\ Len(flight') = Len(flight) + 1
              /\ flight'[Len(flight')].conversation =
                     Append(conversation_history, status_entry)
              /\ pc' = "prompt"
              /\ i' = 0]_vars

\* the first of two steps failed: its record ends with the status entry,
\* the history with the failure detail, and the second step was left alone
C35_Witness ==
    /\ pc = "prompt"
    /\ HasPlan
    /\ NumSteps = 2
    /\ FailedAt(1)
    /\ Untouched(2)
    /\ Len(flight) = 2
    /\ flight[2].conversation =
           SubSeq(conversation_history, 1, Len(conversation_history) - 1)
    /\ conversation_history[Len(conversation_history)] =
           FailureEntry(plan.steps[1].step_goal, plan.steps[1].result[1].content)

\* this step is a call of ToolingHandler.execute
ToolCallStep == tool_calls' = tool_calls + 1

\* the args of the call made in this step have a non-empty command
CommandPresent ==
    /\ tool_last'.args.command # <<>>
    /\ tool_last'.args.command[1] # <<>>

\* the call made in this step was turned down by one of the command checks
TurnedDown ==
    /\ ~tool_last'.raised
    /\ tool_last'.response # <<>>
    /\ tool_last'.response[1].status_update \in
           { "no-command", "dangerous-command" }

\* C36: execute checks that the command is present, then that it passes the
\* deny-list, and only then makes the sandbox and copies the workspace: a
\* call without a command is answered 'no-command' whatever the deny-list
\* would say, a call answered 'no-command' or 'dangerous-command' makes no
\* directory, copies no file and spawns no process, and a directory is made
\* only for a command that is present and passes the deny-list.
C36_ChecksBeforeSandbox ==
    [][ToolCallStep =>
          /\ ~CommandPresent =>
                 /\ TurnedDown
                 /\ tool_last'.response[1].status_update = "no-command"
          /\ TurnedDown =>
                 /\ sandboxes' = sandboxes
                 /\ workspace' = workspace
                 /\ tool_last'.sandbox = <<>>
                 /\ tool_last'.run = <<>>
                 /\ ~tool_last'.spawned
          /\ (sandboxes' # sandboxes \/ tool_last'.sandbox # <<>>) =>
                 /\ CommandPresent
                 /\ Strip(tool_last'.args.command[1]) # <<>>
                 /\ ~DangerousSearch(tool_last'.args.command[1])]_vars

\* after a call that made a sandbox, a call with a dangerous command was
\* turned down and made none
C36_Witness ==
    /\ tool_calls = 2
    /\ Len(sandboxes) = 1
    /\ CalledWith(cmd_mkfs)
    /\ ReturnedStatus("dangerous-command")
    /\ tool_last.sandbox = <<>>
    /\ tool_last.run = <<>>

\* commands of the model that are not empty and consist of whitespace only
BlankCommands == { command \in Commands : command # <<>> /\ Strip(command) = <<>> }

\* C37: a command of whitespace only is not taken for a missing command: it
\* is rejected with success = false and status_update 'dangerous-command',
\* and it is not executed.
C37_BlankCommandRejected ==
    /\ cmd_blank \in BlankCommands
    /\ \A command \in BlankCommands :
           CalledWith(command) =>
               /\ ReturnedStatus("dangerous-command")
               /\ tool_last.response[1].status_update # "no-command"
               /\ ~tool_last.response[1].success
               /\ ~tool_last.spawned
               /\ tool_last.run = <<>>

\* a command of two spaces was rejected as dangerous
C37_Witness ==
    /\ CalledWith(cmd_blank)
    /\ ReturnedStatus("dangerous-command")
    /\ tool_last.response[1].content.detail = << cmd_blank >>
    /\ tool_last.sandbox = <<>>

\* the step at pos completed successfully
SucceededAt(pos) ==
    /\ plan.steps[pos].status = "completed"
    /\ plan.steps[pos].result # <<>>
    /\ plan.steps[pos].result[1].success

\* the two entries of the step at pos: its content and its artifacts
ContextEntries(pos) ==
    { [key |-> <<"step", pos, "result">>,
       value |-> << plan.steps[pos].result[1].content >>],
      [key |-> <<"step", pos, "artifacts">>,
       value |-> << plan.steps[pos].result[1].artifacts_created >>] }

\* the entries of the steps before pos that completed successfully
ContextBefore(pos) ==
    UNION { ContextEntries(k) : k \in { j \in 1..(pos - 1) : SucceededAt(j) } }

\* C38: the __step_context a step at 1-based position i is dispatched with
\* has the keys step_k_result and step_k_artifacts for exactly the positions
\* k < i whose step completed successfully, holding that step's content and
\* artifacts, and no key for position i or a later one; no key has two
\* values, and while a plan is executed no entry is changed or removed.
C38_StepContext ==
    /\ [](HasPlan =>
             \A n \in 1..Len(dispatch_log) :
                 dispatch_log[n].args.step_context =
                     ContextBefore(dispatch_log[n].position))
    /\ [](\A e1 \in step_context, e2 \in step_context :
             e1.key = e2.key => e1 = e2)
    /\ [][plans_executed' = plans_executed =>
             step_context \subseteq step_context']_vars

\* the second step was dispatched with the two entries of the first, which
\* completed, and has added its own two since
C38_Witness ==
    /\ HasPlan
    /\ Len(dispatch_log) = 2
    /\ dispatch_log[1].args.step_context = {}
    /\ dispatch_log[2].position = 2
    /\ dispatch_log[2].args.step_context = ContextEntries(1)
    /\ SucceededAt(2)
    /\ Cardinality(step_context) = 4

\* an element of the answer's steps that is a dictionary, has handler_name
\* and step_goal, and passes the validation of HandlerStepModel
WellFormed(step_data) ==
    /\ step_data.type = "dict"
    /\ step_data.handler_name # <<>>
    /\ step_data.step_goal # <<>>
    /\ IsStr(step_data.handler_name[1])
    /\ NonBlank(step_data.handler_name[1].chars)
    /\ IsStr(step_data.step_goal[1])
    /\ NonBlank(step_data.step_goal[1].chars)
    /\ step_data.status \in
           { <<>>, <<"pending">>, <<"running">>, <<"completed">>, <<"failed">> }

\* the last orchestrate call got an answer that is an object whose steps are
\* a list with at least one element
AnsweredStepList ==
    /\ plan_last.called
    /\ plan_last.answer.kind = "json_dict"
    /\ plan_last.answer.data.steps # <<>>
    /\ plan_last.answer.data.steps[1].type = "list"
    /\ plan_last.answer.data.steps[1].items # <<>>

AnsweredItems == plan_last.answer.data.steps[1].items

\* positions of the well-formed elements of the answer's steps
WellFormedAt == { n \in 1..Len(AnsweredItems) : WellFormed(AnsweredItems[n]) }

\* the answer's other fields are those of a valid plan
OtherFieldsValid ==
    /\ plan_last.answer.data.overall_goal = GoodGoal
    /\ plan_last.answer.data.confidence = GoodConfidence
    /\ plan_last.answer.data.reasoning = GoodReasoning

\* the steps of the returned plan are made of the well-formed elements, each
\* once and in the order of the answer
MadeOfWellFormed(steps) ==
    /\ Len(steps) = Cardinality(WellFormedAt)
    /\ \A k \in 1..Len(steps) :
           LET n == steps[k].id[2]
           IN  /\ n \in WellFormedAt
               /\ steps[k].handler_name =
                      Strip(AnsweredItems[n].handler_name[1].chars)
               /\ steps[k].step_goal =
                      Strip(AnsweredItems[n].step_goal[1].chars)
    /\ \A k \in 1..Len(steps), l \in 1..Len(steps) :
           k < l => steps[k].id[2] < steps[l].id[2]

\* C39: for an answer whose steps are a list of well-formed and malformed
\* elements, the plan orchestrate returns is made of exactly the well-formed
\* ones in their original order; with the answer's other fields valid it
\* returns None exactly when no element is well-formed.
C39_MalformedStepsDropped ==
    AnsweredStepList =>
        /\ ReturnedPlan => MadeOfWellFormed(plan_last.outcome.result[1].steps)
        /\ OtherFieldsValid => (ReturnedPlan <=> WellFormedAt # {})

\* a plan of one step was returned for an answer of two elements, the first
\* of which is no dictionary
C39_Witness ==
    /\ AnsweredStepList
    /\ AnsweredItems = << sd_not_dict, sd_padded >>
    /\ ReturnedPlan
    /\ Len(plan_last.outcome.result[1].steps) = 1
    /\ plan_last.outcome.result[1].steps[1].handler_name = <<"G", "i", "t">>

\* ------------------------------------------------------ LLMClient: the claims
\* the call has returned
LLMReturned == llm.pc = "returned" /\ llm.response # <<>>

\* the call had both prompts and came to its loop
PromptsGiven == llm.system_prompt # <<>> /\ llm.user_prompt # <<>>

\* this step makes an API call
ApiCallStep == llm'.api_calls = llm.api_calls + 1

\* the error of the last attempt made, None when none was made
LastAttemptError ==
    IF llm.responses = <<>> THEN <<>>
    ELSE llm.responses[Len(llm.responses)].error

\* the response the API call of this step got
Got == llm'.responses[Len(llm'.responses)]

\* C40: LLMClient.call makes at most max_retries API calls and returns: an
\* API call is made only by a call that has not returned, the first response
\* whose success flag is true is returned by the very step that got it, a
\* call that had its prompts and returns without a success has made
\* max_retries attempts and returns success = false with an error naming
\* max_retries and the error of the last attempt, a call without a prompt
\* returns success = false without any API call, and every call that came
\* to its loop returns.
C40_BoundedRetries ==
    /\ [](llm.api_calls <= llm.max_retries)
    /\ [][ApiCallStep =>
             /\ llm.pc = "loop"
             /\ llm.response = <<>>
             /\ Len(llm'.responses) = Len(llm.responses) + 1
             /\ Got.success =>
                    /\ llm'.pc = "returned"
                    /\ llm'.response = << Got >>]_vars
    /\ [](Len(llm.responses) = llm.api_calls)
    /\ []((LLMReturned /\ llm.response[1].success) =>
             /\ llm.response[1] = llm.responses[llm.api_calls]
             /\ \A k \in 1..(llm.api_calls - 1) : ~llm.responses[k].success)
    /\ []((LLMReturned /\ PromptsGiven /\ ~llm.response[1].success) =>
             /\ llm.api_calls = llm.max_retries
             /\ llm.response[1].error =
                    << FailedAfter(llm.max_retries, LastAttemptError) >>)
    /\ []((LLMReturned /\ ~PromptsGiven) =>
             /\ llm.api_calls = 0
             /\ ~llm.response[1].success)
    /\ (llm.pc = "loop") ~> LLMReturned

\* a call of three attempts, the second answered by a text that was cut off
\* and the last by an API error, has returned that error as the last one
C40_Witness ==
    /\ LLMReturned
    /\ llm.max_retries = 3
    /\ llm.api_calls = 3
    /\ llm.slept = 3
    /\ llm.responses[2].truncated
    /\ ~llm.response[1].success
    /\ llm.response[1].error[1].last_error = << ErrorText("rate limit") >>

====
